---- MODULE Spec2Model ----
(***************************************************************************)
(* A model of the Tor_unveil analytic pipeline: PCAP ingestion into Flow   *)
(* rows, heuristic classification, pairwise correlation and confidence     *)
(* scoring, all of them reading and writing one relational store.          *)
(*                                                                         *)
(* Conventions.                                                            *)
(*  - an Optional value is a sequence of length at most one: None is <<>>, *)
(*    Some(x) is <<x>>;                                                    *)
(*  - bytes are sequences of 0..255; a base64 string is a sequence of      *)
(*    alphabet indices 0..63, with 64 standing for the pad character '=';  *)
(*  - an address string is the tuple of its dot-separated components; a    *)
(*    component that is not a decimal number is written -1;                *)
(*  - Python floats are modelled as exact rationals <<n, d>> with d > 0    *)
(*    (IEEE rounding is not modelled);                                     *)
(*  - packet times are counted in half microseconds, datetimes in whole    *)
(*    microseconds.                                                        *)
(***************************************************************************)
EXTENDS Integers, Sequences, FiniteSets, TLC

VARIABLES
    \* PcapIngestor
    batch_size,        \* PcapIngestor.batch_size
    flows,             \* PcapIngestor.flows, in dict insertion order
    pcap,              \* the packets of the capture being ingested
    streaming,         \* the streaming argument of ingest_pcap
    packet_count,      \* packets read so far by ingest_pcap
    ingest_pc,         \* "idle", "reading", "done": where ingest_pcap stands
    flow_count,        \* the value ingest_pcap returned (None before it returns)
    flush_log,         \* history: the keys written by each non-empty flush, in order
    \* the store
    tbl_flows,         \* table flows, in id order
    tbl_tor_nodes,     \* table tor_nodes, in id order
    tbl_correlations,  \* table correlations, in id order
    \* TorExtractor
    tor_node_ips,      \* TorExtractor.tor_node_ips
    \* CorrelationEngine
    time_window,       \* CorrelationEngine.time_window, in seconds
    correlation_graph, \* CorrelationEngine.correlation_graph: its edges
    \* what the last pipeline call did
    last_call,         \* the operation, its arguments, its result
    corr_threshold,    \* history: correlation id -> min_correlation_weight of its pass
    passes,            \* number of correlation passes made so far
    analyzed,          \* history: analyze_flows has run over the flows
    stage,             \* the pipeline stage the caller has reached
    \* a call of analyze_flows taken batch by batch
    analyze_run,       \* its position, arguments and locals ([pc |-> "idle"]: none yet)
    \* the category function on its own
    cat_score,         \* the score handed to _get_category
    cat_result         \* what it returned (None before the call)

ingest_vars == <<batch_size, flows, pcap, streaming, packet_count, ingest_pc,
                 flow_count, flush_log>>
store_vars == <<tbl_flows, tbl_tor_nodes, tbl_correlations>>
stage_vars == <<tor_node_ips, time_window, correlation_graph, last_call, corr_threshold,
                passes, analyzed, stage>>
loop_vars == <<analyze_run>>
cat_vars == <<cat_score, cat_result>>
vars == <<ingest_vars, store_vars, stage_vars, loop_vars, cat_vars>>

----------------------------------------------------------------------------
(* Optional values, sequences, rationals *)

None == <<>>

Some(x) == <<x>>

Min(a, b) == IF a <= b THEN a ELSE b

Max(a, b) == IF a >= b THEN a ELSE b

Range(s) == {s[i] : i \in 1..Len(s)}

\* Python's s[:n]
\* the sequence s as a tuple
Listed(s) == SubSeq(s, 1, Len(s))

Prefix(s, n) == SubSeq(s, 1, Min(n, Len(s)))

RECURSIVE SumSeq(_)
SumSeq(s) == IF s = <<>> THEN 0 ELSE Head(s) + SumSeq(Tail(s))

\* the sequences over S of length at most n
SeqUpTo(S, n) == UNION {[1..k -> S] : k \in 0..n}

Abs(a) == IF a < 0 THEN -a ELSE a

RECURSIVE GCD(_, _)
GCD(a, b) == IF b = 0 THEN a ELSE GCD(b, a % b)

\* the rational n/d in lowest terms, d # 0
Rat(n, d) ==
    LET g == GCD(Abs(n), Abs(d))
        sgn == IF d < 0 THEN -1 ELSE 1
    IN  <<sgn * (n \div g), sgn * (d \div g)>>

RInt(k) == <<k, 1>>

RAdd(x, y) == Rat(x[1] * y[2] + y[1] * x[2], x[2] * y[2])

RMul(x, y) == Rat(x[1] * y[1], x[2] * y[2])

\* x / y, y # 0
RDiv(x, y) == Rat(x[1] * y[2], x[2] * y[1])

RLe(x, y) == x[1] * y[2] <= y[1] * x[2]

RLt(x, y) == x[1] * y[2] < y[1] * x[2]

RMin(x, y) == IF RLe(x, y) THEN x ELSE y

RMax(x, y) == IF RLe(x, y) THEN y ELSE x

RECURSIVE RSum(_)
RSum(s) == IF s = <<>> THEN RInt(0) ELSE RAdd(Head(s), RSum(Tail(s)))

\* Python's sub in s, for byte strings
Contains(s, sub) ==
    \E i \in 1..(Len(s) - Len(sub) + 1) : SubSeq(s, i, i + Len(sub) - 1) = sub

\* Python's s.startswith(pre)
StartsWith(s, pre) == Len(s) >= Len(pre) /\ SubSeq(s, 1, Len(pre)) = pre

----------------------------------------------------------------------------
(* base64, as to_flow_model encodes and _analyze_flow decodes *)

B64Pad == 64

\* base64.b64encode(b).decode('utf-8')
b64encode(b) ==
    LET n == Len(b)
        byte(i) == IF i <= n THEN b[i] ELSE 0
        triple(g) == byte(3 * g + 1) * 65536 + byte(3 * g + 2) * 256 + byte(3 * g + 3)
        sextet(g, r) == CASE r = 0 -> triple(g) \div 262144
                          [] r = 1 -> (triple(g) \div 4096) % 64
                          [] r = 2 -> (triple(g) \div 64) % 64
                          [] OTHER -> triple(g) % 64
        char(j) == LET g == (j - 1) \div 4
                       r == (j - 1) % 4
                   IN  IF (r = 2 /\ 3 * g + 2 > n) \/ (r = 3 /\ 3 * g + 3 > n)
                       THEN B64Pad
                       ELSE sextet(g, r)
    IN  Listed([j \in 1..(4 * ((n + 2) \div 3)) |-> char(j)])

\* whether base64.b64decode(s) raises binascii.Error (incorrect padding)
b64decode_raises(s) == Len(s) % 4 # 0

\* base64.b64decode(s), for s whose length is a multiple of four
b64decode(s) ==
    LET m == Len(s)
        pads == Cardinality({j \in 1..m : s[j] = B64Pad})
        val(j) == IF s[j] = B64Pad THEN 0 ELSE s[j]
        quad(g) == val(4 * g + 1) * 262144 + val(4 * g + 2) * 4096
                   + val(4 * g + 3) * 64 + val(4 * g + 4)
        byte(i) == LET g == (i - 1) \div 3
                       r == (i - 1) % 3
                   IN  CASE r = 0 -> quad(g) \div 65536
                         [] r = 1 -> (quad(g) \div 256) % 256
                         [] OTHER -> quad(g) % 256
    IN  Listed([i \in 1..(3 * (m \div 4) - pads) |-> byte(i)])

----------------------------------------------------------------------------
(* The ingestor: FlowKey, FlowRecord, PcapIngestor *)

\* the payload prefix kept per flow, in bytes
PAYLOAD_SAMPLE_LEN == 512

\* datetime.fromtimestamp(t): a datetime has microsecond resolution, and the
\* float is rounded to it half-to-even; t counts half microseconds
fromtimestamp(t) ==
    LET q == t \div 2
    IN  IF t % 2 = 0 THEN q ELSE IF q % 2 = 0 THEN q ELSE q + 1

FlowKey(src_ip, src_port, dst_ip, dst_port, proto) ==
    [src_ip |-> src_ip, src_port |-> src_port, dst_ip |-> dst_ip,
     dst_port |-> dst_port, proto |-> proto]

\* FlowRecord.__init__
FlowRecord(key, timestamp) ==
    [key |-> key,
     ts_start |-> fromtimestamp(timestamp),
     ts_end |-> fromtimestamp(timestamp),
     pkt_count |-> 0,
     byte_count |-> 0,
     payload_sample |-> None]

\* Python truthiness of an Optional[bytes]: neither None nor b''
Truthy(opt) == opt # None /\ opt[1] # <<>>

\* FlowRecord.update
update(rec, timestamp, payload, pkt_size) ==
    [rec EXCEPT !.ts_end = fromtimestamp(timestamp),
                !.pkt_count = @ + 1,
                !.byte_count = @ + pkt_size,
                !.payload_sample =
                    IF Truthy(payload) /\ ~Truthy(@)
                    THEN Some(Prefix(payload[1], PAYLOAD_SAMPLE_LEN))
                    ELSE @]

\* FlowRecord.to_flow_model: the Flow object, before the store gives it an id
\* and its column defaults
to_flow_model(rec) ==
    [src_ip |-> rec.key.src_ip,
     src_port |-> rec.key.src_port,
     dst_ip |-> rec.key.dst_ip,
     dst_port |-> rec.key.dst_port,
     protocol |-> rec.key.proto,
     ts_start |-> rec.ts_start,
     ts_end |-> rec.ts_end,
     pkt_count |-> rec.pkt_count,
     byte_count |-> rec.byte_count,
     payload_sample |-> IF Truthy(rec.payload_sample)
                        THEN Some(b64encode(rec.payload_sample[1]))
                        ELSE None]

\* whether process_packet finds a supported L3 and L4 layer in the packet
Supported(packet) == packet.l3 \in {"IP", "IPv6"} /\ packet.l4 \in {"TCP", "UDP"}

KeyOf(packet) ==
    FlowKey(packet.src, packet.sport, packet.dst, packet.dport, packet.l4)

\* the position of key in the dict fl, 0 when it is not a key of it
KeyIndex(fl, key) ==
    IF \E i \in 1..Len(fl) : fl[i].key = key
    THEN CHOOSE i \in 1..Len(fl) : fl[i].key = key
    ELSE 0

\* PcapIngestor.process_packet: the dict self.flows after the packet
process_packet(fl, packet) ==
    IF ~Supported(packet) THEN fl
    ELSE LET flow_key == KeyOf(packet)
             created == IF KeyIndex(fl, flow_key) = 0
                        THEN Append(fl, FlowRecord(flow_key, packet.time))
                        ELSE fl
             i == KeyIndex(created, flow_key)
         IN  [created EXCEPT ![i] = update(@, packet.time, packet.raw, packet.len)]

----------------------------------------------------------------------------
(* The store: table flows *)

\* the primary key the store gives the next row of a table
NextId(tbl) == IF tbl = <<>> THEN 1 ELSE tbl[Len(tbl)].id + 1

\* the primary keys of the rows of a table
FlowIdsOf(tbl) == {tbl[i].id : i \in 1..Len(tbl)}

\* a Flow object as the row the store inserts for it: the primary key and the
\* column defaults of class Flow
FlowRow(model, id) ==
    [id |-> id,
     src_ip |-> model.src_ip,
     src_port |-> model.src_port,
     dst_ip |-> model.dst_ip,
     dst_port |-> model.dst_port,
     protocol |-> model.protocol,
     ts_start |-> model.ts_start,
     ts_end |-> model.ts_end,
     pkt_count |-> model.pkt_count,
     byte_count |-> model.byte_count,
     payload_sample |-> model.payload_sample,
     possible_tor_handshake |-> FALSE,
     relay_comm |-> FALSE,
     directory_fetch |-> FALSE,
     obfsproxy_candidate |-> FALSE,
     confidence_score |-> <<0, 1>>,
     confidence_category |-> None]

\* session.bulk_save_objects(models); session.commit()
bulk_save_objects(tbl, models) ==
    tbl \o [i \in 1..Len(models) |-> FlowRow(models[i], NextId(tbl) + i - 1)]

\* PcapIngestor._flush_flows: the table after the flush of the dict fl
flush_flows(tbl, fl) ==
    IF fl = <<>> THEN tbl
    ELSE bulk_save_objects(tbl, [i \in 1..Len(fl) |-> to_flow_model(fl[i])])

\* the keys a flush of fl writes, appended to the history of flushes
Logged(log, fl) ==
    IF fl = <<>> THEN log ELSE Append(log, [i \in 1..Len(fl) |-> fl[i].key])

----------------------------------------------------------------------------
(* The captures the ingestor is run on *)

MaxPackets == 3

MaxBatch == 3

IP_HOST_A == <<192, 168, 1, 100>>

IP_HOST_B == <<192, 168, 1, 101>>

IP_RELAY == <<185, 220, 101, 1>>

IP_OPEN == <<8, 8, 8, 8>>

\* b"TOR"
PAYLOAD_SHORT == <<84, 79, 82>>

\* 600 bytes, more than the prefix holds
PAYLOAD_LONG == [i \in 1..600 |-> i % 256]

\* half microseconds; 13 is rounded to 6 microseconds, 10 is 5 exactly
PacketTimes == {10, 13}

\* the Raw layer of a packet and the packet's length on the wire (40 bytes of
\* IP and TCP headers, then the payload)
RawAndLen ==
    {<<None, 40>>, <<Some(<<>>), 40>>, <<Some(PAYLOAD_SHORT), 43>>,
     <<Some(PAYLOAD_LONG), 640>>}

ENDPOINT_A == <<IP_HOST_A, 50000, IP_RELAY, 9001, "TCP">>

ENDPOINT_B == <<IP_HOST_B, 60000, IP_OPEN, 53, "UDP">>

Packet(e, rl, t) ==
    [l3 |-> "IP", l4 |-> e[5], src |-> e[1], sport |-> e[2], dst |-> e[3],
     dport |-> e[4], raw |-> rl[1], time |-> t, len |-> rl[2]]

SupportedPackets ==
    {Packet(ENDPOINT_A, rl, t) : rl \in RawAndLen, t \in PacketTimes}
    \cup {Packet(ENDPOINT_B, <<None, 28>>, 13), Packet(ENDPOINT_B, <<Some(PAYLOAD_SHORT), 31>>, 13)}

\* an ARP frame (no IP layer) and an ICMP datagram (no TCP or UDP layer)
SkippedPackets ==
    {[l3 |-> "ARP", l4 |-> "none", src |-> IP_HOST_A, sport |-> 0, dst |-> IP_OPEN,
      dport |-> 0, raw |-> None, time |-> 10, len |-> 42],
     [l3 |-> "IP", l4 |-> "ICMP", src |-> IP_HOST_A, sport |-> 0, dst |-> IP_OPEN,
      dport |-> 0, raw |-> Some(PAYLOAD_SHORT), time |-> 13, len |-> 31]}

Packets == SupportedPackets \cup SkippedPackets

Captures == SeqUpTo(Packets, MaxPackets)

----------------------------------------------------------------------------
(* PcapIngestor.ingest_pcap, one action per step of it *)

\* the call: self.flows.clear(), packet_count = 0, the capture is opened
StartIngest(capture, mode) ==
    /\ ingest_pc = "idle"
    /\ pcap' = capture
    /\ streaming' = mode
    /\ flows' = <<>>
    /\ packet_count' = 0
    /\ ingest_pc' = "reading"
    /\ UNCHANGED <<batch_size, flow_count, flush_log, store_vars, stage_vars, loop_vars, cat_vars>>

\* one turn of the streaming loop: process_packet, then the periodic flush
StreamPacket ==
    /\ ingest_pc = "reading"
    /\ streaming
    /\ packet_count < Len(pcap)
    /\ LET fl == process_packet(flows, pcap[packet_count + 1])
       IN  /\ flows' = fl
           /\ packet_count' = packet_count + 1
           /\ IF Len(fl) >= batch_size
              THEN /\ tbl_flows' = flush_flows(tbl_flows, fl)
                   /\ flush_log' = Logged(flush_log, fl)
              ELSE UNCHANGED <<tbl_flows, flush_log>>
    /\ UNCHANGED <<batch_size, pcap, streaming, ingest_pc, flow_count,
                   tbl_tor_nodes, tbl_correlations, stage_vars, loop_vars, cat_vars>>

\* one turn of the eager loop over rdpcap's list: process_packet only
EagerPacket ==
    /\ ingest_pc = "reading"
    /\ ~streaming
    /\ packet_count < Len(pcap)
    /\ flows' = process_packet(flows, pcap[packet_count + 1])
    /\ packet_count' = packet_count + 1
    /\ UNCHANGED <<batch_size, pcap, streaming, ingest_pc, flow_count, flush_log,
                   store_vars, stage_vars, loop_vars, cat_vars>>

\* end of input: the final flush, and the return of len(self.flows)
FinishIngest ==
    /\ ingest_pc = "reading"
    /\ packet_count = Len(pcap)
    /\ tbl_flows' = flush_flows(tbl_flows, flows)
    /\ flush_log' = Logged(flush_log, flows)
    /\ flow_count' = Some(Len(flows))
    /\ ingest_pc' = "done"
    /\ UNCHANGED <<batch_size, flows, pcap, streaming, packet_count,
                   tbl_tor_nodes, tbl_correlations, stage_vars, loop_vars, cat_vars>>

\* no ingestor at work, as the other specifications have it
IngestIdle ==
    /\ batch_size = 1000
    /\ flows = <<>>
    /\ pcap = <<>>
    /\ streaming = TRUE
    /\ packet_count = 0
    /\ ingest_pc = "idle"
    /\ flow_count = None
    /\ flush_log = <<>>

\* no classifier, correlator or scorer at work
StagesIdle ==
    /\ tor_node_ips = {}
    /\ time_window = 10
    /\ correlation_graph = {}
    /\ last_call = [op |-> "none"]
    /\ corr_threshold = <<>>
    /\ passes = 0
    /\ analyzed = FALSE
    /\ stage = "classify"
    /\ analyze_run = [pc |-> "idle"]

CategoryIdle ==
    /\ cat_score = <<0, 1>>
    /\ cat_result = None

\* PcapIngestor(db_manager, batch_size) on a store whose tables were just created
InitIngest ==
    /\ batch_size \in 1..MaxBatch
    /\ flows = <<>>
    /\ pcap = <<>>
    /\ streaming = TRUE
    /\ packet_count = 0
    /\ ingest_pc = "idle"
    /\ flow_count = None
    /\ flush_log = <<>>
    /\ tbl_flows = <<>>
    /\ tbl_tor_nodes = <<>>
    /\ tbl_correlations = <<>>
    /\ StagesIdle
    /\ CategoryIdle

NextIngest ==
    \/ \E capture \in Captures, mode \in BOOLEAN : StartIngest(capture, mode)
    \/ StreamPacket
    \/ EagerPacket
    \/ FinishIngest

SpecIngest == InitIngest /\ [][NextIngest]_vars

----------------------------------------------------------------------------
(* The ingestor's claims, under SpecIngest *)

\* the distinct 5-tuples of a capture's supported packets
TuplesOf(capture) ==
    {KeyOf(capture[i]) : i \in {j \in 1..Len(capture) : Supported(capture[j])}}

\* the number of supported packets of a capture
SupportedCount(capture) ==
    Cardinality({j \in 1..Len(capture) : Supported(capture[j])})

\* a Flow row without its primary key
Unkeyed(row) == [row EXCEPT !.id = 0]

\* how many rows of tbl equal r, primary key aside
Copies(tbl, r) == Cardinality({i \in 1..Len(tbl) : Unkeyed(tbl[i]) = r})

\* the two tables hold the same multiset of rows, primary keys aside
SameRows(a, b) ==
    \A r \in {Unkeyed(x) : x \in Range(a) \cup Range(b)} : Copies(a, r) = Copies(b, r)

\* the payload prefix a Flow row stores, decoded
StoredPrefix(row) ==
    IF row.payload_sample = None THEN <<>> ELSE b64decode(row.payload_sample[1])

\* self.flows and the table after ingest_pcap has read the packets of capture
\* from position i on, without the final flush
RECURSIVE ReadFrom(_, _, _, _, _, _)
ReadFrom(capture, i, mode, bs, fl, tbl) ==
    IF i > Len(capture) THEN <<fl, tbl>>
    ELSE LET fl2 == process_packet(fl, capture[i])
         IN  ReadFrom(capture, i + 1, mode, bs, fl2,
                      IF mode /\ Len(fl2) >= bs THEN flush_flows(tbl, fl2) ELSE tbl)

\* the table flows after one whole run of ingest_pcap into an empty store
IngestRun(capture, mode, bs) ==
    LET read == ReadFrom(capture, 1, mode, bs, <<>>, <<>>)
    IN  flush_flows(read[2], read[1])

\* C1: a finished run over a capture with K distinct 5-tuples and M supported
\* packets has left exactly K Flow rows whose pkt_count sum to M, in either
\* mode and for every batch size.
C1_KFlowsMPackets ==
    ingest_pc = "done" =>
        /\ Len(tbl_flows) = Cardinality(TuplesOf(pcap))
        /\ SumSeq([i \in 1..Len(tbl_flows) |-> tbl_flows[i].pkt_count])
               = SupportedCount(pcap)

\* C2: every persisted Flow has pkt_count >= 1, byte_count >= pkt_count,
\* ts_start <= ts_end and a payload prefix of at most 512 bytes, whatever the
\* order of the packets' timestamps.
C2_FlowRowInvariants ==
    \A i \in 1..Len(tbl_flows) :
        /\ tbl_flows[i].pkt_count >= 1
        /\ tbl_flows[i].byte_count >= tbl_flows[i].pkt_count
        /\ tbl_flows[i].ts_start <= tbl_flows[i].ts_end
        /\ Len(StoredPrefix(tbl_flows[i])) <= PAYLOAD_SAMPLE_LEN

\* C3: in streaming mode the live accumulators never outnumber the batch size
\* after a packet step, and no accumulator is written by two flushes.
C3_FlushClearsAccumulators ==
    (streaming /\ ingest_pc # "idle") =>
        /\ Len(flows) <= batch_size
        /\ \A m, n \in 1..Len(flush_log) :
               m # n => Range(flush_log[m]) \cap Range(flush_log[n]) = {}

\* C4: for one capture and one batch size, the run has persisted the same
\* multiset of Flow rows as a run in the other mode (streaming or eager).
C4_StreamingEqualsEager ==
    ingest_pc = "done" =>
        SameRows(tbl_flows, IngestRun(pcap, ~streaming, batch_size))

\* C5: the value ingest_pcap returns is the number of Flow rows the run added
\* to the (initially empty) store.
C5_ReturnsRowsAdded ==
    ingest_pc = "done" => flow_count = Some(Len(tbl_flows))

----------------------------------------------------------------------------
(* The classifier: TorExtractor *)

TOR_PORTS == {9001, 9030, 9050, 9051, 9150}

\* b'\x16\x03'
TLS_CLIENT_HELLO == <<22, 3>>

\* b'\x00\x00\x00', b'\x03\x00'
TOR_HANDSHAKE_PATTERNS == <<(<<0, 0, 0>>), (<<3, 0>>)>>

\* b'HTTP/', b'GET ', b'POST ', b'SSH-', b'220 ', b'CONNECT'
common_markers ==
    <<(<<72, 84, 84, 80, 47>>), (<<71, 69, 84, 32>>), (<<80, 79, 83, 84, 32>>),
      (<<83, 83, 72, 45>>), (<<50, 50, 48, 32>>), (<<67, 79, 78, 78, 69, 67, 84>>)>>

\* a record of a directory snapshot as the TorNode row _load_tor_nodes builds
\* from it; node_data.get(k) is None for a missing k
TorNodeRow(node_data, id) ==
    [id |-> id,
     ip_address |-> node_data.ip_address[1],
     port |-> IF node_data.port = None THEN 9001 ELSE node_data.port[1],
     fingerprint |-> node_data.fingerprint,
     nickname |-> node_data.nickname,
     flags |-> node_data.flags,
     country_code |-> node_data.country_code,
     asn |-> node_data.asn,
     bandwidth |-> node_data.bandwidth]

\* session.query(TorNode).filter_by(ip_address=ip).first(): None or Some(row)
TorNodeByIp(nodes, ip) ==
    LET hits == SelectSeq(nodes, LAMBDA n : n.ip_address = ip)
    IN  IF hits = <<>> THEN None ELSE Some(Head(hits))

\* the unique constraint on tor_nodes.fingerprint (NULLs are not compared)
FingerprintsUnique(nodes) ==
    \A i, j \in 1..Len(nodes) :
        (i # j /\ nodes[i].fingerprint # None) => nodes[i].fingerprint # nodes[j].fingerprint

\* TorExtractor._load_tor_nodes from record i of the snapshot on: the rows of
\* the open transaction, the cache, and whether the load raised. A record
\* without 'ip_address' raises KeyError; a row that repeats a fingerprint
\* raises IntegrityError at the next flush (the next query, or the commit).
RECURSIVE LoadFrom(_, _, _, _)
LoadFrom(tor_nodes, i, nodes, cache) ==
    IF i > Len(tor_nodes) THEN [nodes |-> nodes, cache |-> cache, raised |-> FALSE]
    ELSE LET node_data == tor_nodes[i]
         IN  IF node_data.ip_address = None
             THEN [nodes |-> nodes, cache |-> cache, raised |-> TRUE]
             ELSE IF TorNodeByIp(nodes, node_data.ip_address[1]) # None
             THEN LoadFrom(tor_nodes, i + 1, nodes, cache)
             ELSE LET added == Append(nodes, TorNodeRow(node_data, NextId(nodes)))
                      cached == cache \cup {node_data.ip_address[1]}
                  IN  IF FingerprintsUnique(added)
                      THEN LoadFrom(tor_nodes, i + 1, added, cached)
                      ELSE [nodes |-> added, cache |-> cached, raised |-> TRUE]

\* TorExtractor._check_obfsproxy_patterns
check_obfsproxy_patterns(payload) ==
    IF Len(payload) < 20 THEN FALSE
    ELSE LET head == Prefix(payload, 100)
             has_marker == \E m \in 1..Len(common_markers) :
                               Contains(head, common_markers[m])
             unique_bytes == Cardinality(Range(head))
         IN  ~has_marker /\ Len(payload) > 100 /\ unique_bytes > 50

\* the payload rules of _analyze_flow on the decoded prefix
handshake_pattern(payload) ==
    /\ StartsWith(payload, TLS_CLIENT_HELLO)
    /\ \E k \in 1..Len(TOR_HANDSHAKE_PATTERNS) : Contains(payload, TOR_HANDSHAKE_PATTERNS[k])

\* the stored prefix _analyze_flow gets to look at: None when there is no
\* sample or its decoding raises (the exception is logged and swallowed)
decoded_payload(flow) ==
    IF flow.payload_sample = None \/ flow.payload_sample[1] = <<>> THEN None
    ELSE IF b64decode_raises(flow.payload_sample[1]) THEN None
    ELSE Some(b64decode(flow.payload_sample[1]))

\* rules whose directory rule asks for a known relay address as well
rules_fired_directory_known(flow, cache) ==
    LET payload == decoded_payload(flow)
    IN  [relay_comm |-> flow.dst_ip \in cache \/ flow.dst_port \in TOR_PORTS,
         directory_fetch |-> flow.dst_port = 9030 /\ flow.dst_ip \in cache,
         possible_tor_handshake |-> payload # None /\ handshake_pattern(payload[1]),
         obfsproxy_candidate |-> payload # None /\ check_obfsproxy_patterns(payload[1])]

\* TorExtractor._analyze_flow: the rules that fire for a flow
rules_fired(flow, cache) ==
    LET payload == decoded_payload(flow)
    IN  [relay_comm |-> flow.dst_ip \in cache \/ flow.dst_port \in TOR_PORTS,
         directory_fetch |-> flow.dst_port = 9030,
         possible_tor_handshake |-> payload # None /\ handshake_pattern(payload[1]),
         obfsproxy_candidate |-> payload # None /\ check_obfsproxy_patterns(payload[1])]

\* TorExtractor._analyze_flow: the value it returns (is_tor)
is_tor(fired) ==
    \/ fired.relay_comm
    \/ fired.directory_fetch
    \/ fired.possible_tor_handshake
    \/ fired.obfsproxy_candidate

\* an _analyze_flow that assigns each flag the outcome of its rule
analyze_flow_assign(flow, fired) ==
    [flow EXCEPT
        !.relay_comm = fired.relay_comm,
        !.directory_fetch = fired.directory_fetch,
        !.possible_tor_handshake = fired.possible_tor_handshake,
        !.obfsproxy_candidate = fired.obfsproxy_candidate]

\* TorExtractor._analyze_flow: the Flow row as it leaves it, a flag is set
\* where its rule fired and is left alone where it did not
analyze_flow(flow, fired) ==
    [flow EXCEPT
        !.relay_comm = IF fired.relay_comm THEN TRUE ELSE @,
        !.directory_fetch = IF fired.directory_fetch THEN TRUE ELSE @,
        !.possible_tor_handshake = IF fired.possible_tor_handshake THEN TRUE ELSE @,
        !.obfsproxy_candidate = IF fired.obfsproxy_candidate THEN TRUE ELSE @]

\* TorExtractor.analyze_flows from the given offset on: the table and the
\* count of TOR-related flows after the remaining batches, batch >= 1
RECURSIVE AnalyzeFrom(_, _, _, _, _, _)
AnalyzeFrom(tbl, offset, total_flows, batch, cache, tor_flow_count) ==
    IF ~(offset < total_flows) THEN <<tbl, tor_flow_count>>
    ELSE LET page == {i \in 1..Len(tbl) : offset < i /\ i <= offset + batch}
             fired == Listed([i \in 1..Len(tbl) |-> rules_fired(tbl[i], cache)])
             done == Listed([i \in 1..Len(tbl) |->
                                IF i \in page THEN analyze_flow(tbl[i], fired[i])
                                ELSE tbl[i]])
             hits == Cardinality({i \in page : is_tor(fired[i])})
         IN  AnalyzeFrom(done, offset + batch, total_flows, batch, cache,
                         tor_flow_count + hits)

----------------------------------------------------------------------------
(* The correlator: CorrelationEngine *)

\* datetimes count microseconds
MICROS_PER_SECOND == 1000000

\* timedelta.total_seconds() of the difference of two datetimes
total_seconds(ts_a, ts_b) == Rat(ts_a - ts_b, MICROS_PER_SECOND)

RAbs(x) == <<Abs(x[1]), x[2]>>

\* whether CorrelationEngine._is_internal_ip raises: int(parts[1]) of an
\* address that starts with '172.' and whose second component is no number
is_internal_ip_raises(ip, known_internal) ==
    /\ ~(known_internal # {} /\ ip \in known_internal)
    /\ ~(Len(ip) >= 2 /\ ip[1] = 10)
    /\ ~(Len(ip) >= 3 /\ ip[1] = 192 /\ ip[2] = 168)
    /\ Len(ip) >= 2 /\ ip[1] = 172
    /\ ip[2] = -1

\* a check that takes every address for an internal one
is_internal_ip_any(ip, known_internal) == TRUE

\* CorrelationEngine._is_internal_ip, where it does not raise
is_internal_ip(ip, known_internal) ==
    \/ known_internal # {} /\ ip \in known_internal
    \/ Len(ip) >= 2 /\ ip[1] = 10
    \/ Len(ip) >= 3 /\ ip[1] = 192 /\ ip[2] = 168
    \/ Len(ip) >= 2 /\ ip[1] = 172 /\ 16 <= ip[2] /\ ip[2] <= 31

\* whether CorrelationEngine._get_internal_ips raises
get_internal_ips_raises(tbl) ==
    \E i \in 1..Len(tbl) : is_internal_ip_raises(tbl[i].src_ip, {})

\* CorrelationEngine._get_internal_ips
get_internal_ips(tbl) ==
    {tbl[i].src_ip : i \in {j \in 1..Len(tbl) : is_internal_ip(tbl[j].src_ip, {})}}

\* Python truthiness of TorNode.flags: neither None nor an empty list
FlagsTruthy(node) == node.flags # None /\ node.flags[1] # <<>>

\* flag in node.flags, for flags that are a list
HasFlag(node, flag) == node.flags # None /\ flag \in Range(node.flags[1])

\* whether _check_entry_exit_pattern raises: 'Exit' in tor_node2.flags with
\* flags None
check_entry_exit_pattern_raises(flow1, flow2, nodes) ==
    LET tor_node1 == TorNodeByIp(nodes, flow1.dst_ip)
        tor_node2 == TorNodeByIp(nodes, flow2.dst_ip)
    IN  /\ tor_node1 # None /\ FlagsTruthy(tor_node1[1]) /\ HasFlag(tor_node1[1], "Guard")
        /\ tor_node2 # None /\ tor_node2[1].flags = None

\* a pattern check that knows the Guard-to-Exit pattern alone
check_entry_exit_pattern_guard_exit(flow1, flow2, nodes) ==
    LET tor_node1 == TorNodeByIp(nodes, flow1.dst_ip)
        tor_node2 == TorNodeByIp(nodes, flow2.dst_ip)
    IN  /\ tor_node1 # None /\ FlagsTruthy(tor_node1[1]) /\ HasFlag(tor_node1[1], "Guard")
        /\ tor_node2 # None /\ HasFlag(tor_node2[1], "Exit")

\* CorrelationEngine._check_entry_exit_pattern
check_entry_exit_pattern(flow1, flow2, nodes) ==
    LET tor_node1 == TorNodeByIp(nodes, flow1.dst_ip)
        tor_node2 == TorNodeByIp(nodes, flow2.dst_ip)
    IN  \/ /\ tor_node1 # None /\ FlagsTruthy(tor_node1[1]) /\ HasFlag(tor_node1[1], "Guard")
           /\ tor_node2 # None /\ HasFlag(tor_node2[1], "Exit")
        \/ tor_node1 # None /\ tor_node2 = None

\* the timing score of _calculate_correlation
timing_score(time_diff) ==
    IF RLt(time_diff, RInt(1)) THEN Rat(4, 10)
    ELSE IF RLt(time_diff, RInt(5)) THEN Rat(3, 10)
    ELSE IF RLt(time_diff, RInt(10)) THEN Rat(2, 10)
    ELSE Rat(1, 10)

\* whether _calculate_correlation raises: the entry/exit check does, or the
\* size ratio divides by a zero mean packet size
calculate_correlation_raises(flow1, flow2, nodes) ==
    \/ check_entry_exit_pattern_raises(flow1, flow2, nodes)
    \/ /\ flow1.pkt_count > 0 /\ flow2.pkt_count > 0
       /\ flow1.byte_count = 0 /\ flow2.byte_count = 0

\* a size score that divides the larger mean packet size by the smaller
size_score_inverted(flow1, flow2) ==
    IF flow1.pkt_count > 0 /\ flow2.pkt_count > 0
    THEN LET avg_size1 == Rat(flow1.byte_count, flow1.pkt_count)
             avg_size2 == Rat(flow2.byte_count, flow2.pkt_count)
             size_ratio == RDiv(RMax(avg_size1, avg_size2), RMin(avg_size1, avg_size2))
         IN  Some(RMul(size_ratio, Rat(2, 10)))
    ELSE None

\* the size score of _calculate_correlation, None when a flow has no packets
size_score(flow1, flow2) ==
    IF flow1.pkt_count > 0 /\ flow2.pkt_count > 0
    THEN LET avg_size1 == Rat(flow1.byte_count, flow1.pkt_count)
             avg_size2 == Rat(flow2.byte_count, flow2.pkt_count)
             size_ratio == RDiv(RMin(avg_size1, avg_size2), RMax(avg_size1, avg_size2))
         IN  Some(RMul(size_ratio, Rat(2, 10)))
    ELSE None

\* CorrelationEngine._calculate_correlation: the weight and the evidence
calculate_correlation(flow1, flow2, nodes) ==
    LET time_diff == RAbs(total_seconds(flow2.ts_start, flow1.ts_start))
        is_entry_exit == check_entry_exit_pattern(flow1, flow2, nodes)
        size == size_score(flow1, flow2)
        same_source == flow1.src_ip = flow2.src_ip
        w1 == timing_score(time_diff)
        w2 == IF is_entry_exit THEN RAdd(w1, Rat(3, 10)) ELSE w1
        w3 == IF size # None THEN RAdd(w2, size[1]) ELSE w2
        w4 == IF same_source THEN RAdd(w3, Rat(1, 10)) ELSE w3
    IN  [weight |-> w4,
         evidence |-> [timing_diff_seconds |-> time_diff,
                       timing_score |-> w1,
                       type |-> IF is_entry_exit THEN Some("entry_exit") ELSE None,
                       entry_exit_pattern |-> is_entry_exit,
                       size_similarity |-> size,
                       same_source |-> same_source]]

\* whether a Flow row has one of the four indicators
any_indicator(flow) ==
    \/ flow.possible_tor_handshake
    \/ flow.relay_comm
    \/ flow.directory_fetch
    \/ flow.obfsproxy_candidate

\* rows in ORDER BY ts_start order; rows of equal ts_start keep the order
\* they have in rows (SQLite walks them by rowid)
RECURSIVE order_by_ts_start(_)
order_by_ts_start(rows) ==
    IF rows = <<>> THEN <<>>
    ELSE LET sorted == order_by_ts_start(SubSeq(rows, 1, Len(rows) - 1))
             last == rows[Len(rows)]
             k == Cardinality({i \in 1..Len(sorted) : sorted[i].ts_start <= last.ts_start})
         IN  SubSeq(sorted, 1, k) \o <<last>> \o SubSeq(sorted, k + 1, Len(sorted))

\* the query at the head of correlate_flows
tor_flows_query(tbl) == order_by_ts_start(SelectSeq(tbl, any_indicator))

\* an inner loop that stops at a flow2 from a public address
RECURSIVE inner_pairs_break_at_public(_, _, _, _, _)
inner_pairs_break_at_public(tor_flows, i, j, window, internal_ips) ==
    IF j > Len(tor_flows) THEN <<>>
    ELSE IF ~is_internal_ip(tor_flows[j].src_ip, internal_ips)
    THEN <<>>
    ELSE IF RLt(RInt(window),
                RAbs(total_seconds(tor_flows[j].ts_start, tor_flows[i].ts_start)))
    THEN <<>>
    ELSE <<(<<i, j>>)>> \o inner_pairs_break_at_public(tor_flows, i, j + 1, window,
                                                       internal_ips)

\* the inner loop of correlate_flows for flow1 = tor_flows[i], from
\* tor_flows[j] on: the pairs whose weight is calculated, in order
RECURSIVE inner_pairs(_, _, _, _, _)
inner_pairs(tor_flows, i, j, window, internal_ips) ==
    IF j > Len(tor_flows) THEN <<>>
    ELSE IF ~is_internal_ip(tor_flows[j].src_ip, internal_ips)
    THEN inner_pairs(tor_flows, i, j + 1, window, internal_ips)
    ELSE IF RLt(RInt(window),
                RAbs(total_seconds(tor_flows[j].ts_start, tor_flows[i].ts_start)))
    THEN <<>>
    ELSE <<(<<i, j>>)>> \o inner_pairs(tor_flows, i, j + 1, window, internal_ips)

\* the outer loop of correlate_flows from tor_flows[i] on
RECURSIVE outer_pairs(_, _, _, _)
outer_pairs(tor_flows, i, window, internal_ips) ==
    IF i > Len(tor_flows) THEN <<>>
    ELSE (IF is_internal_ip(tor_flows[i].src_ip, internal_ips)
          THEN inner_pairs(tor_flows, i, i + 1, window, internal_ips)
          ELSE <<>>)
         \o outer_pairs(tor_flows, i + 1, window, internal_ips)

\* the Correlation object correlate_flows builds for a pair
CorrelationRow(flow1, flow2, calc, id) ==
    [id |-> id,
     flow_id |-> flow1.id,
     correlated_flow_id |-> flow2.id,
     correlation_weight |-> calc.weight,
     correlation_type |-> IF calc.evidence.type # None THEN calc.evidence.type[1]
                          ELSE "timing",
     evidence |-> calc.evidence]

\* a test that persists every pair
persists_all(weight, min_correlation_weight) == TRUE

\* a test that persists the pairs at or under the threshold
persists_below(weight, min_correlation_weight) == RLe(weight, min_correlation_weight)

\* the test that persists a pair
persists(weight, min_correlation_weight) == RLe(min_correlation_weight, weight)

\* nx.Graph.add_edge(a, b, weight=w): an edge is its two ends and its weight,
\* and adding it again replaces the weight
add_edge(graph, a, b, w) ==
    {e \in graph : e.ends # {a, b}} \cup {[ends |-> {a, b}, weight |-> w]}

RECURSIVE add_edges(_, _)
add_edges(graph, rows) ==
    IF rows = <<>> THEN graph
    ELSE add_edges(add_edge(graph, Head(rows).flow_id, Head(rows).correlated_flow_id,
                            Head(rows).correlation_weight),
                   Tail(rows))

\* CorrelationEngine.correlate_flows: whether it raised, the Correlation rows
\* it added to the session in order (committed only if it did not raise), and
\* the value it returns
correlate_flows(tbl, nodes, corrs, window, min_correlation_weight) ==
    IF get_internal_ips_raises(tbl) THEN [raised |-> TRUE, added |-> <<>>]
    ELSE LET tor_flows == tor_flows_query(tbl)
             internal_ips == get_internal_ips(tbl)
             pairs == outer_pairs(tor_flows, 1, window, internal_ips)
             bad == {k \in 1..Len(pairs) :
                        calculate_correlation_raises(tor_flows[pairs[k][1]],
                                                     tor_flows[pairs[k][2]], nodes)}
             stop == IF bad = {} THEN Len(pairs) + 1
                     ELSE CHOOSE k \in bad : \A m \in bad : k <= m
             calcs == Listed([k \in 1..(stop - 1) |->
                                 calculate_correlation(tor_flows[pairs[k][1]],
                                                       tor_flows[pairs[k][2]], nodes)])
             kept == SelectSeq([k \in 1..(stop - 1) |-> k],
                               LAMBDA k : persists(calcs[k].weight, min_correlation_weight))
         IN  [raised |-> bad # {},
              added |-> Listed([n \in 1..Len(kept) |->
                                   CorrelationRow(tor_flows[pairs[kept[n]][1]],
                                                  tor_flows[pairs[kept[n]][2]],
                                                  calcs[kept[n]], NextId(corrs) + n - 1)])]

----------------------------------------------------------------------------
(* The scorer: ConfidenceScorer *)

\* ConfidenceScorer.WEIGHTS
WEIGHT_tor_node_match == 40

WEIGHT_timing_correlation == 30

WEIGHT_payload_similarity == 20

WEIGHT_unusual_patterns == 10

\* ConfidenceScorer.CATEGORIES, in the order the dict lists them
CATEGORIES ==
    <<[category |-> "Low", min_score |-> 0, max_score |-> 30],
      [category |-> "Medium", min_score |-> 30, max_score |-> 60],
      [category |-> "High", min_score |-> 60, max_score |-> 85],
      [category |-> "Critical", min_score |-> 85, max_score |-> 100]>>

\* max_score * (tenths / 10)
Share(max_score, tenths) == RMul(RInt(max_score), Rat(tenths, 10))

\* score + (bonus if cond)
Plus(score, cond, bonus) == IF cond THEN RAdd(score, bonus) ELSE score

\* ConfidenceScorer._score_tor_node_match
score_tor_node_match(flow, nodes) ==
    LET max_score == WEIGHT_tor_node_match
        tor_node == TorNodeByIp(nodes, flow.dst_ip)
        flagged(f) == tor_node # None /\ FlagsTruthy(tor_node[1]) /\ HasFlag(tor_node[1], f)
        s1 == Plus(RInt(0), tor_node # None, Share(max_score, 5))
        s2 == Plus(s1, flagged("Guard"), Share(max_score, 2))
        s3 == Plus(s2, flagged("Exit"), Share(max_score, 2))
        s4 == Plus(s3, flagged("Fast"), Share(max_score, 1))
        s5 == Plus(s4, flow.relay_comm, Share(max_score, 3))
        s6 == Plus(s5, flow.directory_fetch, Share(max_score, 2))
        s7 == Plus(s6, flow.possible_tor_handshake, Share(max_score, 3))
        s8 == Plus(s7, flow.obfsproxy_candidate, Share(max_score, 4))
    IN  RMin(s8, RInt(max_score))

\* the Correlation rows that touch a flow
correlations_of(corrs, flow_id) ==
    SelectSeq(corrs, LAMBDA c : c.flow_id = flow_id \/ c.correlated_flow_id = flow_id)

\* ConfidenceScorer._score_timing_correlation
score_timing_correlation(flow, corrs) ==
    LET max_score == WEIGHT_timing_correlation
        correlations == correlations_of(corrs, flow.id)
        correlation_count == Len(correlations)
        total_weight == RSum([i \in 1..correlation_count |->
                                 correlations[i].correlation_weight])
        count_score == IF correlation_count >= 5 THEN Share(max_score, 5)
                       ELSE IF correlation_count >= 3 THEN Share(max_score, 3)
                       ELSE IF correlation_count >= 1 THEN Share(max_score, 2)
                       ELSE RInt(0)
        avg_weight == IF correlation_count > 0
                      THEN RDiv(total_weight, RInt(correlation_count))
                      ELSE RInt(0)
        weight_score == RMul(RMul(avg_weight, RInt(max_score)), Rat(5, 10))
    IN  IF correlations = <<>> THEN RInt(0)
        ELSE RMin(RAdd(count_score, weight_score), RInt(max_score))

\* a payload score that is not clamped
score_payload_patterns_unclamped(flow) ==
    LET max_score == WEIGHT_payload_similarity
        s1 == Plus(RInt(0), flow.possible_tor_handshake, Share(max_score, 6))
        s2 == Plus(s1, flow.obfsproxy_candidate, Share(max_score, 8))
        s3 == Plus(s2, flow.byte_count > 10000, Share(max_score, 2))
    IN  IF flow.payload_sample = None \/ flow.payload_sample[1] = <<>> THEN RInt(0)
        ELSE s3

\* ConfidenceScorer._score_payload_patterns
score_payload_patterns(flow) ==
    LET max_score == WEIGHT_payload_similarity
        s1 == Plus(RInt(0), flow.possible_tor_handshake, Share(max_score, 6))
        s2 == Plus(s1, flow.obfsproxy_candidate, Share(max_score, 8))
        s3 == Plus(s2, flow.byte_count > 10000, Share(max_score, 2))
    IN  IF flow.payload_sample = None \/ flow.payload_sample[1] = <<>> THEN RInt(0)
        ELSE RMin(s3, RInt(max_score))

\* a shape score whose packet rule fires from 100 packets on
score_unusual_patterns_from_100(flow) ==
    LET max_score == WEIGHT_unusual_patterns
        duration == total_seconds(flow.ts_end, flow.ts_start)
        s1 == Plus(RInt(0), flow.dst_port \in {9001, 9030, 9050, 9051, 9150},
                   Share(max_score, 5))
        s2 == Plus(s1, flow.pkt_count >= 100, Share(max_score, 3))
        s3 == Plus(s2, RLt(RInt(60), duration), Share(max_score, 2))
    IN  RMin(s3, RInt(max_score))

\* ConfidenceScorer._score_unusual_patterns; ts_start and ts_end are set on
\* every row the ingestor writes
score_unusual_patterns(flow) ==
    LET max_score == WEIGHT_unusual_patterns
        duration == total_seconds(flow.ts_end, flow.ts_start)
        s1 == Plus(RInt(0), flow.dst_port \in {9001, 9030, 9050, 9051, 9150},
                   Share(max_score, 5))
        s2 == Plus(s1, flow.pkt_count > 100, Share(max_score, 3))
        s3 == Plus(s2, RLt(RInt(60), duration), Share(max_score, 2))
    IN  RMin(s3, RInt(max_score))

\* the clamp of _calculate_score: max(0.0, min(100.0, total))
clamp(total) == RMax(RInt(0), RMin(RInt(100), total))

\* ConfidenceScorer._calculate_score: the ScoreComponents
calculate_score(flow, nodes, corrs) ==
    LET tor_node_match == score_tor_node_match(flow, nodes)
        timing_correlation == score_timing_correlation(flow, corrs)
        payload_similarity == score_payload_patterns(flow)
        unusual_patterns == score_unusual_patterns(flow)
    IN  [tor_node_match |-> tor_node_match,
         timing_correlation |-> timing_correlation,
         payload_similarity |-> payload_similarity,
         unusual_patterns |-> unusual_patterns,
         total |-> clamp(RAdd(RAdd(tor_node_match, timing_correlation),
                              RAdd(payload_similarity, unusual_patterns)))]

\* the loop of _get_category from entry k of CATEGORIES on, and its fallback
RECURSIVE category_from(_, _)
category_from(score, k) ==
    IF k > Len(CATEGORIES) THEN "Critical"
    ELSE IF RLe(RInt(CATEGORIES[k].min_score), score)
            /\ RLt(score, RInt(CATEGORIES[k].max_score))
    THEN CATEGORIES[k].category
    ELSE category_from(score, k + 1)

\* a category function whose intervals are closed at the top
get_category_closed(score) ==
    IF RLe(score, RInt(30)) THEN "Low"
    ELSE IF RLe(score, RInt(60)) THEN "Medium"
    ELSE IF RLe(score, RInt(85)) THEN "High"
    ELSE "Critical"

\* ConfidenceScorer._get_category
get_category(score) == category_from(score, 1)

\* a loop body that writes the score and leaves the category alone
scored_flow_unlabelled(flow, nodes, corrs) ==
    [flow EXCEPT !.confidence_score = calculate_score(flow, nodes, corrs).total]

\* a loop body that adds the new total to the score the row already holds
scored_flow_accumulating(flow, nodes, corrs) ==
    LET total == clamp(RAdd(flow.confidence_score, calculate_score(flow, nodes, corrs).total))
    IN  [flow EXCEPT !.confidence_score = total,
                     !.confidence_category = Some(get_category(total))]

\* the body of the loop of score_all_flows: the Flow row with its score and
\* its category written
scored_flow(flow, nodes, corrs) ==
    LET score_components == calculate_score(flow, nodes, corrs)
    IN  [flow EXCEPT !.confidence_score = score_components.total,
                     !.confidence_category = Some(get_category(score_components.total))]

\* what score_flow returns for a flow: (score_components.total, score_components)
score_flow_result(flow, nodes, corrs) ==
    LET score_components == calculate_score(flow, nodes, corrs)
    IN  <<score_components.total, score_components>>

----------------------------------------------------------------------------
(* The stores the pipeline is run on: Flow rows as the ingestor writes them *)

MaxFlows == 3

MaxPasses == 2

IP_EXIT == <<185, 220, 101, 2>>

IP_PUBLIC == <<8, 8, 4, 4>>

IP_HOST_C == <<10, 0, 0, 5>>

\* a TLS record header followed by the bytes 03 00
PAYLOAD_HELLO == <<22, 3, 1, 3, 0, 5>>

\* 120 bytes, all different
PAYLOAD_RANDOM == [i \in 1..120 |-> (i * 7) % 256]

\* an accumulator of the ingestor, given whole
Accumulator(key, ts_start, ts_end, pkt_count, byte_count, payload_sample) ==
    [key |-> key,
     ts_start |-> ts_start,
     ts_end |-> ts_end,
     pkt_count |-> pkt_count,
     byte_count |-> byte_count,
     payload_sample |-> payload_sample]

\* the accumulators the stored flows are drawn from, in the order the
\* ingestor wrote them (which is not the order of their first packets)
Accumulators ==
    <<Accumulator(FlowKey(IP_HOST_A, 50000, IP_RELAY, 9001, "TCP"),
                  0, 10000000, 100, 10000, None),
      Accumulator(FlowKey(IP_HOST_A, 50001, IP_OPEN, 443, "TCP"),
                  500000, 70000000, 50, 5000, Some(PAYLOAD_HELLO)),
      Accumulator(FlowKey(IP_HOST_C, 50005, IP_EXIT, 9001, "TCP"),
                  11000000, 12000000, 10, 4000, None),
      Accumulator(FlowKey(IP_HOST_B, 50003, IP_OPEN, 9030, "TCP"),
                  10000000, 10100000, 101, 20200, Some(PAYLOAD_RANDOM)),
      Accumulator(FlowKey(IP_PUBLIC, 50004, IP_RELAY, 443, "TCP"),
                  1000000, 2000000, 10, 1000, None),
      Accumulator(FlowKey(IP_HOST_A, 50002, IP_OPEN, 443, "TCP"),
                  500000, 600000, 4, 400, None)>>

\* the elements of s at the positions in idx, in order
RECURSIVE Pick(_, _)
Pick(s, idx) ==
    IF idx = {} THEN <<>>
    ELSE LET m == CHOOSE k \in idx : \A n \in idx : k <= n
         IN  <<s[m]>> \o Pick(s, idx \ {m})

\* the tables of flows the pipeline starts from: one flush of up to MaxFlows
\* of the accumulators
FlowTables ==
    {flush_flows(<<>>, Pick(Accumulators, idx)) :
        idx \in {x \in SUBSET (1..Len(Accumulators)) :
                    1 <= Cardinality(x) /\ Cardinality(x) <= MaxFlows}}

\* the records of a directory snapshot (tor_node_list.json)
NODE_GUARD ==
    [ip_address |-> Some(IP_RELAY), port |-> Some(9001), fingerprint |-> Some("ABC123"),
     nickname |-> Some("TestRelay"), flags |-> Some(<<"Guard", "Fast", "Stable">>),
     country_code |-> None, asn |-> None, bandwidth |-> Some(1000)]

NODE_EXIT ==
    [ip_address |-> Some(IP_EXIT), port |-> None, fingerprint |-> Some("DEF456"),
     nickname |-> None, flags |-> Some(<<"Exit">>),
     country_code |-> Some("DE"), asn |-> None, bandwidth |-> None]

\* a later record for the address of NODE_GUARD
NODE_RELOAD ==
    [ip_address |-> Some(IP_RELAY), port |-> Some(443), fingerprint |-> Some("ABC999"),
     nickname |-> Some("Renamed"), flags |-> Some(<<"Guard">>),
     country_code |-> Some("NL"), asn |-> Some("AS1"), bandwidth |-> Some(2000)]

Snapshots == {<<NODE_GUARD, NODE_EXIT>>, <<NODE_RELOAD>>}

\* the batch_size arguments of analyze_flows (100 is the default)
Batches == {1, 2, 100}

\* the min_correlation_weight arguments of correlate_flows (0.3 is the default)
Thresholds == {Rat(3, 10), Rat(8, 10)}

\* the flow_id arguments of score_flow: a row that exists, one that does not
FlowIds == {1, 99}

\* the time_window_seconds arguments of CorrelationEngine (10 is the default)
Windows == {1, 10}

----------------------------------------------------------------------------
(* The pipeline stages, one action per call. The callers run the stages in  *)
(* the order classify, correlate, score (scripts/ingest_sample.py,          *)
(* api/main.py run_analysis); stage records how far the caller has got: a   *)
(* stage may be called any number of times, and skipped, but the caller     *)
(* does not go back to an earlier one.                                      *)

\* TorExtractor(db_manager): a new extractor, its cache empty
NewExtractor ==
    /\ stage = "classify"
    /\ tor_node_ips # {}
    /\ tor_node_ips' = {}
    /\ last_call' = [op |-> "TorExtractor"]
    /\ UNCHANGED <<ingest_vars, store_vars, time_window, correlation_graph,
                   corr_threshold, passes, analyzed, stage, loop_vars, cat_vars>>

\* TorExtractor.load_tor_nodes_from_file: commit, or roll back and raise
LoadTorNodes(tor_nodes) ==
    LET load == LoadFrom(tor_nodes, 1, tbl_tor_nodes, tor_node_ips)
    IN  /\ stage = "classify"
        /\ tbl_tor_nodes' = IF load.raised THEN tbl_tor_nodes ELSE load.nodes
        /\ tor_node_ips' = load.cache
        /\ last_call' = [op |-> "load_tor_nodes", tor_nodes |-> tor_nodes,
                         raised |-> load.raised]
        /\ UNCHANGED <<ingest_vars, tbl_flows, tbl_correlations, time_window,
                       correlation_graph, corr_threshold, passes, analyzed, stage, loop_vars, cat_vars>>

\* TorExtractor.analyze_flows(batch)
AnalyzeFlows(batch) ==
    LET done == AnalyzeFrom(tbl_flows, 0, Len(tbl_flows), batch, tor_node_ips, 0)
    IN  /\ stage = "classify"
        /\ tbl_flows' = done[1]
        /\ last_call' = [op |-> "analyze_flows", ret |-> done[2]]
        /\ analyzed' = TRUE
        /\ UNCHANGED <<ingest_vars, tbl_tor_nodes, tbl_correlations, tor_node_ips,
                       time_window, correlation_graph, corr_threshold, passes, stage,
                       loop_vars, cat_vars>>

\* a pass that commits each Correlation as it adds it: the rows added before
\* an exception stay in the store
CorrelatePassCommitsEachPair(min_correlation_weight, commit_raises) ==
    LET pass == correlate_flows(tbl_flows, tbl_tor_nodes, tbl_correlations, time_window,
                                min_correlation_weight)
        committed == IF commit_raises THEN <<>> ELSE pass.added
    IN  /\ stage \in {"classify", "correlate"}
        /\ stage' = "correlate"
        /\ passes < MaxPasses
        /\ passes' = passes + 1
        /\ correlation_graph' = add_edges(correlation_graph, pass.added)
        /\ tbl_correlations' = tbl_correlations \o committed
        /\ corr_threshold' = corr_threshold
               \o [n \in 1..Len(committed) |-> min_correlation_weight]
        /\ last_call' =
               IF pass.raised \/ commit_raises
               THEN [op |-> "correlate_flows", raised |-> TRUE,
                     error |-> IF pass.raised THEN "pairing" ELSE "commit"]
               ELSE [op |-> "correlate_flows", raised |-> FALSE,
                     min_correlation_weight |-> min_correlation_weight,
                     ret |-> Len(pass.added)]
        /\ UNCHANGED <<ingest_vars, tbl_flows, tbl_tor_nodes, tor_node_ips, time_window,
                       analyzed, loop_vars, cat_vars>>

\* CorrelationEngine.correlate_flows(min_correlation_weight), the whole call:
\* the graph edges are added as the pairs are found; session.commit() at the
\* end either succeeds or raises (commit_raises, the store's doing); any
\* exception rolls the session back and is raised again
CorrelatePass(min_correlation_weight, commit_raises) ==
    LET pass == correlate_flows(tbl_flows, tbl_tor_nodes, tbl_correlations, time_window,
                                min_correlation_weight)
    IN  /\ stage \in {"classify", "correlate"}
        /\ stage' = "correlate"
        /\ passes < MaxPasses
        /\ passes' = passes + 1
        /\ correlation_graph' = add_edges(correlation_graph, pass.added)
        /\ IF pass.raised \/ commit_raises
           THEN /\ UNCHANGED <<tbl_correlations, corr_threshold>>
                /\ last_call' = [op |-> "correlate_flows", raised |-> TRUE,
                                 error |-> IF pass.raised THEN "pairing" ELSE "commit"]
           ELSE /\ tbl_correlations' = tbl_correlations \o pass.added
                /\ corr_threshold' = corr_threshold
                       \o [n \in 1..Len(pass.added) |-> min_correlation_weight]
                /\ last_call' = [op |-> "correlate_flows", raised |-> FALSE,
                                 min_correlation_weight |-> min_correlation_weight,
                                 ret |-> Len(pass.added)]
        /\ UNCHANGED <<ingest_vars, tbl_flows, tbl_tor_nodes, tor_node_ips, time_window,
                       analyzed, loop_vars, cat_vars>>

\* correlate_flows on a store that accepts the commit
CorrelateFlows(min_correlation_weight) == CorrelatePass(min_correlation_weight, FALSE)

\* ConfidenceScorer.score_all_flows
ScoreAllFlows ==
    /\ stage' = "score"
    /\ tbl_flows' = [i \in 1..Len(tbl_flows) |->
                        scored_flow(tbl_flows[i], tbl_tor_nodes, tbl_correlations)]
    /\ last_call' = [op |-> "score_all_flows", ret |-> Len(tbl_flows),
                     repeat |-> last_call.op = "score_all_flows"]
    /\ UNCHANGED <<ingest_vars, tbl_tor_nodes, tbl_correlations, tor_node_ips,
                   time_window, correlation_graph, corr_threshold, passes, analyzed,
                   loop_vars, cat_vars>>

\* ConfidenceScorer.score_flow(flow_id): ValueError when there is no such flow
ScoreFlow(flow_id) ==
    LET found == SelectSeq(tbl_flows, LAMBDA f : f.id = flow_id)
    IN  /\ stage' = "score"
        /\ last_call' =
               IF found = <<>>
               THEN [op |-> "score_flow", flow_id |-> flow_id, raised |-> TRUE]
               ELSE [op |-> "score_flow", flow_id |-> flow_id, raised |-> FALSE,
                     ret |-> score_flow_result(Head(found), tbl_tor_nodes,
                                               tbl_correlations)]
        /\ UNCHANGED <<ingest_vars, store_vars, tor_node_ips, time_window,
                       correlation_graph, corr_threshold, passes, analyzed, loop_vars, cat_vars>>

\* session.delete(flow); session.commit() for the Flow with the primary key.
\* Flow.correlations (cascade "all, delete-orphan", foreign key
\* Correlation.flow_id) makes the session delete the Correlations whose
\* flow_id is the flow's; Correlation.correlated_flow has no cascade, so the
\* rows whose correlated_flow_id is the flow's are left to the store: one
\* that enforces the foreign key raises IntegrityError and the session rolls
\* back, one that does not (SQLite as create_engine opens it) deletes the
\* Flow row and keeps them
DeleteFlow(flow_id, fk_enforced) ==
    LET cascaded == {k \in 1..Len(tbl_correlations) : tbl_correlations[k].flow_id = flow_id}
        kept == SelectSeq([k \in 1..Len(tbl_correlations) |-> k], LAMBDA k : k \notin cascaded)
        referenced == \E n \in 1..Len(kept) :
                          tbl_correlations[kept[n]].correlated_flow_id = flow_id
    IN  /\ flow_id \in FlowIdsOf(tbl_flows)
        /\ IF fk_enforced /\ referenced
           THEN /\ last_call' = [op |-> "delete_flow", flow_id |-> flow_id, raised |-> TRUE]
                /\ UNCHANGED <<tbl_flows, tbl_correlations, corr_threshold>>
           ELSE /\ last_call' = [op |-> "delete_flow", flow_id |-> flow_id, raised |-> FALSE]
                /\ tbl_flows' = SelectSeq(tbl_flows, LAMBDA f : f.id # flow_id)
                /\ tbl_correlations' = Listed([n \in 1..Len(kept) |->
                                                  tbl_correlations[kept[n]]])
                /\ corr_threshold' = Listed([n \in 1..Len(kept) |-> corr_threshold[kept[n]]])
        /\ UNCHANGED <<ingest_vars, tbl_tor_nodes, tor_node_ips, time_window,
                       correlation_graph, passes, analyzed, stage, loop_vars, cat_vars>>

\* a store holding ingested flows and nothing else, an extractor and an
\* engine just constructed
Init ==
    /\ IngestIdle
    /\ tbl_flows \in FlowTables
    /\ tbl_tor_nodes = <<>>
    /\ tbl_correlations = <<>>
    /\ tor_node_ips = {}
    /\ time_window \in Windows
    /\ correlation_graph = {}
    /\ last_call = [op |-> "none"]
    /\ corr_threshold = <<>>
    /\ passes = 0
    /\ analyzed = FALSE
    /\ stage = "classify"
    /\ analyze_run = [pc |-> "idle"]
    /\ CategoryIdle

Next ==
    \/ NewExtractor
    \/ \E tor_nodes \in Snapshots : LoadTorNodes(tor_nodes)
    \/ \E batch \in Batches : AnalyzeFlows(batch)
    \/ \E min_correlation_weight \in Thresholds : CorrelateFlows(min_correlation_weight)
    \/ ScoreAllFlows
    \/ \E flow_id \in FlowIds : ScoreFlow(flow_id)

Spec == Init /\ [][Next]_vars

\* the pipeline with Flow rows deleted between its stages
NextDelete ==
    \/ \E batch \in Batches : AnalyzeFlows(batch)
    \/ \E min_correlation_weight \in Thresholds : CorrelateFlows(min_correlation_weight)
    \/ \E flow_id \in 1..MaxFlows, fk_enforced \in BOOLEAN : DeleteFlow(flow_id, fk_enforced)

SpecDelete == Init /\ [][NextDelete]_vars

----------------------------------------------------------------------------
(* The payload rules and the payload score: one flow to a port and an       *)
(* address that trip no rule, so that its indicators come from its payload  *)
(* alone, classified and scored                                             *)

\* n bytes that take k different values, in ascending runs (no ASCII marker)
BytesOf(n, k) == [i \in 1..n |-> i % k]

\* a TLS client hello with a TOR cell header, then 100 bytes of 60 values
PAYLOAD_HELLO_OBFS == <<22, 3, 0, 0, 0>> \o [i \in 1..100 |-> 100 + (i % 60)]

\* 'GET ' and then 97 bytes, all different
PAYLOAD_GET == <<71, 69, 84, 32>> \o [i \in 1..97 |-> 100 + i]

\* 100 bytes of 51 values and then 'GET ', past the first 100 bytes
PAYLOAD_GET_LATE == BytesOf(100, 51) \o <<71, 69, 84, 32>>

\* the first payloads of the flow: none, and payloads on either side of
\* each condition of _check_obfsproxy_patterns
FirstPayloads ==
    {None, Some(PAYLOAD_HELLO), Some(PAYLOAD_HELLO_OBFS), Some(PAYLOAD_GET),
     Some(PAYLOAD_GET_LATE), Some(BytesOf(99, 51)), Some(BytesOf(100, 51)),
     Some(BytesOf(101, 51)), Some(BytesOf(101, 50))}

\* the byte counts of the flow, on either side of 10000
ByteCounts == {4000, 10000, 10001}

\* the store after the ingest of the one flow
PayloadTables ==
    {flush_flows(<<>>, <<Accumulator(FlowKey(IP_HOST_A, 50001, IP_OPEN, 443, "TCP"),
                                     0, 1000000, 10, byte_count, payload)>>) :
         byte_count \in ByteCounts, payload \in FirstPayloads}

InitPayload ==
    /\ IngestIdle
    /\ StagesIdle
    /\ CategoryIdle
    /\ tbl_flows \in PayloadTables
    /\ tbl_tor_nodes = <<>>
    /\ tbl_correlations = <<>>

NextPayload ==
    \/ \E batch \in Batches : AnalyzeFlows(batch)
    \/ ScoreAllFlows
    \/ ScoreFlow(1)

SpecPayload == InitPayload /\ [][NextPayload]_vars

----------------------------------------------------------------------------
(* The stages under faults: directory snapshots with a record that makes    *)
(* the load or the pattern check raise, a Flow row whose src_ip is no       *)
(* address, and a store whose commit may fail                               *)

\* a src_ip string that starts with '172.' and whose second component is no
\* number (src_ip is an unvalidated String(45) column)
IP_MALFORMED == <<172, -1, 0, 1>>

\* a record with "flags": null for the address of NODE_EXIT
NODE_EXIT_NOFLAGS ==
    [ip_address |-> Some(IP_EXIT), port |-> Some(9001), fingerprint |-> Some("DEF456"),
     nickname |-> None, flags |-> None,
     country_code |-> None, asn |-> None, bandwidth |-> None]

\* a record without the 'ip_address' key
NODE_NOADDR ==
    [ip_address |-> None, port |-> Some(9001), fingerprint |-> Some("FFF000"),
     nickname |-> None, flags |-> Some(<<"Fast">>),
     country_code |-> None, asn |-> None, bandwidth |-> None]

\* a record for a new address that repeats the fingerprint of NODE_GUARD
NODE_DUP ==
    [ip_address |-> Some(IP_OPEN), port |-> Some(443), fingerprint |-> Some("ABC123"),
     nickname |-> None, flags |-> Some(<<"Fast">>),
     country_code |-> None, asn |-> None, bandwidth |-> None]

FaultSnapshots ==
    {<<NODE_GUARD, NODE_EXIT_NOFLAGS>>, <<NODE_EXIT, NODE_NOADDR>>, <<NODE_GUARD, NODE_DUP>>}

\* the accumulators of the fault runs: two flows of one host half a second
\* apart, a flow of a second host to the exit address five seconds later,
\* and a flow whose source is the malformed address
FaultAccumulators ==
    <<Accumulator(FlowKey(IP_HOST_A, 50000, IP_RELAY, 9001, "TCP"),
                  0, 10000000, 100, 10000, None),
      Accumulator(FlowKey(IP_HOST_A, 50001, IP_OPEN, 443, "TCP"),
                  500000, 70000000, 50, 5000, Some(PAYLOAD_HELLO)),
      Accumulator(FlowKey(IP_HOST_C, 50005, IP_EXIT, 9001, "TCP"),
                  5000000, 6000000, 10, 4000, None),
      Accumulator(FlowKey(IP_MALFORMED, 50006, IP_RELAY, 9001, "TCP"),
                  1000000, 2000000, 10, 1000, None)>>

FaultTables ==
    {flush_flows(<<>>, Pick(FaultAccumulators, idx)) :
        idx \in {x \in SUBSET (1..Len(FaultAccumulators)) :
                    1 <= Cardinality(x) /\ Cardinality(x) <= MaxFlows}}

InitFaults ==
    /\ IngestIdle
    /\ StagesIdle
    /\ CategoryIdle
    /\ tbl_flows \in FaultTables
    /\ tbl_tor_nodes = <<>>
    /\ tbl_correlations = <<>>

NextFaults ==
    \/ NewExtractor
    \/ \E tor_nodes \in FaultSnapshots : LoadTorNodes(tor_nodes)
    \/ \E batch \in Batches : AnalyzeFlows(batch)
    \/ \E min_correlation_weight \in Thresholds, commit_raises \in BOOLEAN :
           CorrelatePass(min_correlation_weight, commit_raises)

SpecFaults == InitFaults /\ [][NextFaults]_vars

----------------------------------------------------------------------------
(* TorExtractor.analyze_flows batch by batch: one action for the call, one  *)
(* for each turn of its while loop, one for its return                      *)

\* the batch_size arguments of the batch-by-batch runs: any int is accepted
BatchSizes == {-1, 0, 1, 2, 100}

\* the most batches a run is followed for: one more than a run over MaxFlows
\* flows needs when it moves forward
MaxCommits == MaxFlows + 1

\* the positions of the rows that session.query(Flow).offset(offset)
\* .limit(batch_size).all() returns, by the LIMIT and OFFSET rules of SQLite:
\* a negative OFFSET counts as 0, and a negative LIMIT as no limit
Page(total, offset, batch) ==
    LET skipped == IF offset < 0 THEN 0 ELSE offset
    IN  {i \in 1..total : skipped < i /\ (batch < 0 \/ i <= skipped + batch)}

\* analyze_flows(batch) up to the while loop
AnalyzeBegin(batch) ==
    /\ stage = "classify"
    /\ analyze_run.pc # "loop"
    /\ analyze_run' = [pc |-> "loop", batch_size |-> batch,
                       total_flows |-> Len(tbl_flows), offset |-> 0,
                       tor_flow_count |-> 0, commits |-> 0,
                       visits |-> [i \in 1..Len(tbl_flows) |-> 0],
                       start |-> tbl_flows]
    /\ UNCHANGED <<ingest_vars, store_vars, stage_vars, cat_vars>>

\* one turn of the while loop: the batch is read, the rules are applied to
\* each of its flows, the session is committed and the offset moves on
AnalyzeBatch ==
    LET run == analyze_run
        page == Page(Len(tbl_flows), run.offset, run.batch_size)
        fired == Listed([i \in 1..Len(tbl_flows) |-> rules_fired(tbl_flows[i], tor_node_ips)])
    IN  /\ run.pc = "loop"
        /\ run.offset < run.total_flows
        /\ run.commits < MaxCommits
        /\ tbl_flows' = Listed([i \in 1..Len(tbl_flows) |->
                                   IF i \in page THEN analyze_flow(tbl_flows[i], fired[i])
                                   ELSE tbl_flows[i]])
        /\ analyze_run' =
               [run EXCEPT !.offset = @ + run.batch_size,
                           !.tor_flow_count = @ + Cardinality({i \in page : is_tor(fired[i])}),
                           !.commits = @ + 1,
                           !.visits = [i \in 1..Len(tbl_flows) |->
                                          IF i \in page THEN @[i] + 1 ELSE @[i]]]
        /\ UNCHANGED <<ingest_vars, tbl_tor_nodes, tbl_correlations, stage_vars, cat_vars>>

\* the loop condition fails: analyze_flows returns tor_flow_count
AnalyzeReturn ==
    /\ analyze_run.pc = "loop"
    /\ ~(analyze_run.offset < analyze_run.total_flows)
    /\ analyze_run' = [analyze_run EXCEPT !.pc = "returned"]
    /\ last_call' = [op |-> "analyze_flows", ret |-> analyze_run.tor_flow_count]
    /\ analyzed' = TRUE
    /\ UNCHANGED <<ingest_vars, store_vars, tor_node_ips, time_window, correlation_graph,
                   corr_threshold, passes, stage, cat_vars>>

\* a store of ingested flows, or of none, and an extractor with a loaded or
\* an empty cache
InitBatch ==
    /\ IngestIdle
    /\ CategoryIdle
    /\ tbl_flows \in FlowTables \cup {<<>>}
    /\ tbl_tor_nodes = <<>>
    /\ tbl_correlations = <<>>
    /\ tor_node_ips \in {{}, {IP_RELAY, IP_EXIT}}
    /\ time_window = 10
    /\ correlation_graph = {}
    /\ last_call = [op |-> "none"]
    /\ corr_threshold = <<>>
    /\ passes = 0
    /\ analyzed = FALSE
    /\ stage = "classify"
    /\ analyze_run = [pc |-> "idle"]

NextBatch ==
    \/ \E batch \in BatchSizes : AnalyzeBegin(batch)
    \/ AnalyzeBatch
    \/ AnalyzeReturn

SpecBatch == InitBatch /\ [][NextBatch]_vars

----------------------------------------------------------------------------
(* Claims about the scorer and the correlator *)

CategoryLabels == {"Low", "Medium", "High", "Critical"}

InScoreRange(score) == RLe(RInt(0), score) /\ RLe(score, RInt(100))

\* C6: after score_all_flows every Flow row has a confidence_score between 0
\* and 100 and a confidence_category among Low, Medium, High, Critical that
\* is the category function of the stored score, and the count returned is
\* the number of Flow rows; score_flow returns a total that is the total of
\* the components it returns and lies between 0 and 100
C6_ScoresAndCategories ==
    /\ last_call.op = "score_all_flows" =>
           /\ \A i \in 1..Len(tbl_flows) :
                  /\ InScoreRange(tbl_flows[i].confidence_score)
                  /\ tbl_flows[i].confidence_category # None
                  /\ tbl_flows[i].confidence_category[1] \in CategoryLabels
                  /\ tbl_flows[i].confidence_category[1]
                         = get_category(tbl_flows[i].confidence_score)
           /\ last_call.ret = Len(tbl_flows)
    /\ (last_call.op = "score_flow" /\ ~last_call.raised) =>
           /\ last_call.ret[1] = last_call.ret[2].total
           /\ InScoreRange(last_call.ret[1])

\* score_all_flows has scored a table in which a flow is not Low
C6_Witness ==
    /\ last_call.op = "score_all_flows"
    /\ \E i \in 1..Len(tbl_flows) :
           /\ RLe(RInt(30), tbl_flows[i].confidence_score)
           /\ tbl_flows[i].confidence_category # Some("Low")

\* C8: after any correlation pass every persisted Correlation links two
\* different Flow ids, has a weight at or above the threshold of the pass
\* that created it, and both Flows it names are in the store
C8_CorrelationRows ==
    /\ Len(corr_threshold) = Len(tbl_correlations)
    /\ \A k \in 1..Len(tbl_correlations) :
           /\ tbl_correlations[k].flow_id # tbl_correlations[k].correlated_flow_id
           /\ RLe(corr_threshold[k], tbl_correlations[k].correlation_weight)
           /\ tbl_correlations[k].flow_id \in FlowIdsOf(tbl_flows)
           /\ tbl_correlations[k].correlated_flow_id \in FlowIdsOf(tbl_flows)

\* a pass with the higher threshold has persisted a Correlation
C8_Witness ==
    /\ last_call.op = "correlate_flows"
    /\ \E k \in 1..Len(tbl_correlations) : corr_threshold[k] = Rat(8, 10)

\* the flow pairs of Correlation rows, in order
PairsOf(rows) == [k \in 1..Len(rows) |-> <<rows[k].flow_id, rows[k].correlated_flow_id,
                                           rows[k].correlation_weight>>]

\* the rows one pass with the threshold leaves in a store without Correlations
OnePass(min_correlation_weight) ==
    LET pass == correlate_flows(tbl_flows, tbl_tor_nodes, <<>>, time_window,
                                min_correlation_weight)
    IN  IF pass.raised THEN <<>> ELSE pass.added

\* C9: a correlation pass replaces the prior Correlation rows: after a second
\* pass with the same parameters over the same Flow and TorNode rows the
\* Correlation table holds what one pass leaves, one row per flow pair at most
C9_PassReplacesPriorRows ==
    (/\ last_call.op = "correlate_flows"
     /\ ~last_call.raised
     /\ passes = 2
     /\ \A k \in 1..Len(corr_threshold) :
            corr_threshold[k] = last_call.min_correlation_weight)
    => /\ PairsOf(tbl_correlations) = PairsOf(OnePass(last_call.min_correlation_weight))
       /\ \A j, k \in 1..Len(tbl_correlations) :
              ({tbl_correlations[j].flow_id, tbl_correlations[j].correlated_flow_id}
                   = {tbl_correlations[k].flow_id, tbl_correlations[k].correlated_flow_id})
              => j = k

\* C10: over the same Flow and TorNode rows and the same window, a pass with
\* the higher of two thresholds, on a store without Correlations, persists
\* no more Correlations than a pass with the lower one
C10_ThresholdMonotone ==
    (last_call.op = "correlate_flows" /\ ~last_call.raised /\ passes = 1) =>
        /\ last_call.ret = Len(OnePass(last_call.min_correlation_weight))
        /\ \A t \in Thresholds :
               /\ RLe(last_call.min_correlation_weight, t)
                      => Len(OnePass(t)) <= last_call.ret
               /\ RLe(t, last_call.min_correlation_weight)
                      => last_call.ret <= Len(OnePass(t))

\* a first pass has persisted a Correlation that the higher threshold drops
C10_Witness ==
    /\ last_call.op = "correlate_flows"
    /\ ~last_call.raised
    /\ passes = 1
    /\ last_call.min_correlation_weight = Rat(3, 10)
    /\ Len(OnePass(Rat(8, 10))) < last_call.ret

----------------------------------------------------------------------------
(* Claims about re-running a stage *)

\* the four indicator booleans of a Flow row
Indicators(flow) ==
    <<flow.possible_tor_handshake, flow.relay_comm, flow.directory_fetch,
      flow.obfsproxy_candidate>>

\* the flows after one more analyze_flows(batch) by an extractor with the cache
Reanalyzed(batch, cache) == AnalyzeFrom(tbl_flows, 0, Len(tbl_flows), batch, cache, 0)[1]

\* C11: after a classifier pass, a second pass over the same Flow rows with
\* the same TorNode table, by the same extractor or by one just constructed
\* (whose cache is empty), leaves the four indicator booleans of every Flow
\* as the first pass left them
C11_ClassifierIdempotent ==
    last_call.op = "analyze_flows" =>
        \A batch \in Batches, cache \in {tor_node_ips, {}} :
            \A i \in 1..Len(tbl_flows) :
                Indicators(Reanalyzed(batch, cache)[i]) = Indicators(tbl_flows[i])

\* a pass has flagged a flow through the cache alone, which a new extractor
\* would not hold
C11_Witness ==
    /\ last_call.op = "analyze_flows"
    /\ \E i \in 1..Len(tbl_flows) :
           /\ tbl_flows[i].relay_comm
           /\ tbl_flows[i].dst_ip \in tor_node_ips
           /\ tbl_flows[i].dst_port \notin TOR_PORTS

\* C12: a score_all_flows pass that directly follows another one, with no
\* change to the Flow, TorNode and Correlation rows in between, leaves the
\* confidence_score and the confidence_category of every Flow as they were
C12_ScorerIdempotent ==
    [][(last_call.op = "score_all_flows" /\ last_call'.op = "score_all_flows")
           => /\ Len(tbl_flows') = Len(tbl_flows)
              /\ \A i \in 1..Len(tbl_flows) :
                     /\ tbl_flows'[i].confidence_score = tbl_flows[i].confidence_score
                     /\ tbl_flows'[i].confidence_category = tbl_flows[i].confidence_category]_vars

\* a second pass in a row has scored a flow above zero, with a Correlation
\* and a TorNode row counting towards the score
C12_Witness ==
    /\ last_call.op = "score_all_flows"
    /\ last_call.repeat
    /\ tbl_correlations # <<>>
    /\ \E i \in 1..Len(tbl_flows) :
           /\ RLt(RInt(30), tbl_flows[i].confidence_score)
           /\ TorNodeByIp(tbl_tor_nodes, tbl_flows[i].dst_ip) # None

----------------------------------------------------------------------------
(* Claims about the TorNode table and the classifier that reads it *)

\* the rows of the TorNode table with the address
RowsByIp(nodes, ip) == {k \in 1..Len(nodes) : nodes[k].ip_address = ip}

\* C17: a load_tor_nodes that does not raise, of a snapshot with a record
\* whose address is already in the TorNode table, leaves exactly one row for
\* that address, with the primary key it had and with port, fingerprint,
\* nickname, flags, country_code, asn and bandwidth as the record gives them
C17_ReloadUpserts ==
    [][(last_call'.op = "load_tor_nodes" /\ ~last_call'.raised) =>
           \A i \in 1..Len(last_call'.tor_nodes) :
               LET node_data == last_call'.tor_nodes[i]
                   existing == TorNodeByIp(tbl_tor_nodes, node_data.ip_address[1])
               IN  existing # None =>
                       /\ Cardinality(RowsByIp(tbl_tor_nodes', node_data.ip_address[1])) = 1
                       /\ TorNodeByIp(tbl_tor_nodes', node_data.ip_address[1])
                              = Some(TorNodeRow(node_data, existing[1].id))]_vars

\* C18: after a classification pass every Flow whose dst_ip is the address
\* of a row of the TorNode table has relay_comm set, whether the row was
\* loaded through the extractor that ran the pass or was in the store before
\* that extractor was constructed
C18_RelayCommFromTable ==
    last_call.op = "analyze_flows" =>
        \A i \in 1..Len(tbl_flows) :
            TorNodeByIp(tbl_tor_nodes, tbl_flows[i].dst_ip) # None => tbl_flows[i].relay_comm

\* C21: after classification every Flow whose dst_port is 9030 has
\* directory_fetch and relay_comm set, whatever its payload and whatever the
\* TorNode table holds
C21_DirectoryPort ==
    analyzed =>
        \A i \in 1..Len(tbl_flows) :
            tbl_flows[i].dst_port = 9030
                => tbl_flows[i].directory_fetch /\ tbl_flows[i].relay_comm

\* a pass has classified a flow to port 9030 that carries a payload, with no
\* row in the TorNode table
C21_Witness ==
    /\ last_call.op = "analyze_flows"
    /\ tbl_tor_nodes = <<>>
    /\ \E i \in 1..Len(tbl_flows) :
           /\ tbl_flows[i].dst_port = 9030
           /\ tbl_flows[i].payload_sample # None
           /\ tbl_flows[i].directory_fetch

\* C25: the value analyze_flows returns is the number of Flows of the store
\* that have at least one of the four indicators set when the pass ends, on a
\* first pass and on a pass over flows an earlier pass has annotated
C25_ReturnsFlaggedCount ==
    last_call.op = "analyze_flows" =>
        last_call.ret = Cardinality({i \in 1..Len(tbl_flows) : any_indicator(tbl_flows[i])})

----------------------------------------------------------------------------
(* Claims about the pairs a correlation pass persists *)

\* an IPv4 address in 10.0.0.0/8, 172.16.0.0/12 or 192.168.0.0/16
PrivateAddress(ip) ==
    /\ Len(ip) = 4
    /\ \/ ip[1] = 10
       \/ ip[1] = 172 /\ ip[2] \in 16..31
       \/ ip[1] = 192 /\ ip[2] = 168

\* the Flow row with the primary key
FlowById(tbl, flow_id) == CHOOSE f \in Range(tbl) : f.id = flow_id

\* C15: no persisted Correlation has, on either side, a Flow whose src_ip
\* lies outside 10.0.0.0/8, 172.16.0.0/12 and 192.168.0.0/16, nor a Flow
\* with none of the four classifier indicators set
C15_PrivateCandidatesOnly ==
    \A k \in 1..Len(tbl_correlations) :
        \A flow_id \in {tbl_correlations[k].flow_id, tbl_correlations[k].correlated_flow_id} :
            /\ flow_id \in FlowIdsOf(tbl_flows)
            /\ PrivateAddress(FlowById(tbl_flows, flow_id).src_ip)
            /\ any_indicator(FlowById(tbl_flows, flow_id))

\* a pass has persisted a Correlation over a store that holds a classified
\* flow from a public address
C15_Witness ==
    /\ tbl_correlations # <<>>
    /\ \E i \in 1..Len(tbl_flows) :
           any_indicator(tbl_flows[i]) /\ ~PrivateAddress(tbl_flows[i].src_ip)

\* the pairs of Flow ids whose weight a pass over the store calculates
EvaluatedPairs ==
    LET tor_flows == tor_flows_query(tbl_flows)
        pairs == outer_pairs(tor_flows, 1, time_window, get_internal_ips(tbl_flows))
    IN  {<<tor_flows[pairs[k][1]].id, tor_flows[pairs[k][2]].id>> : k \in 1..Len(pairs)}

\* the distance of the starts of two flows, in microseconds
StartDistance(a, b) == Abs(b.ts_start - a.ts_start)

\* the pairs (a, b) of candidate flows from private addresses, a before b in
\* ts_start order, whose starts are no further apart than the window
WindowPairs ==
    LET tor_flows == tor_flows_query(tbl_flows)
    IN  {<<tor_flows[i].id, tor_flows[j].id>> :
             <<i, j>> \in {p \in (1..Len(tor_flows)) \X (1..Len(tor_flows)) :
                 /\ p[1] < p[2]
                 /\ PrivateAddress(tor_flows[p[1]].src_ip)
                 /\ PrivateAddress(tor_flows[p[2]].src_ip)
                 /\ StartDistance(tor_flows[p[1]], tor_flows[p[2]])
                        <= time_window * MICROS_PER_SECOND}}

\* C16: in a correlation pass with window W the pairs whose weight is
\* calculated are exactly the pairs (a, b) of candidate flows from private
\* addresses, a before b in ts_start order, with |b.ts_start - a.ts_start|
\* <= W; no pair further apart than W is persisted, and every pair inside the
\* window whose weight reaches the threshold is
C16_WindowExact ==
    (last_call.op = "correlate_flows" /\ ~last_call.raised) =>
        /\ EvaluatedPairs = WindowPairs
        /\ \A k \in 1..Len(tbl_correlations) :
               StartDistance(FlowById(tbl_flows, tbl_correlations[k].flow_id),
                             FlowById(tbl_flows, tbl_correlations[k].correlated_flow_id))
                   <= time_window * MICROS_PER_SECOND
        /\ passes = 1 =>
               {<<tbl_correlations[k].flow_id, tbl_correlations[k].correlated_flow_id>> :
                    k \in 1..Len(tbl_correlations)}
               = {p \in WindowPairs :
                      persists(calculate_correlation(FlowById(tbl_flows, p[1]),
                                                     FlowById(tbl_flows, p[2]),
                                                     tbl_tor_nodes).weight,
                               last_call.min_correlation_weight)}

\* a pass has calculated a pair, walked past a candidate from a public
\* address that starts between its two flows, and left out a pair of private
\* candidates that start further apart than the window
C16_Witness ==
    /\ last_call.op = "correlate_flows"
    /\ ~last_call.raised
    /\ LET tor_flows == tor_flows_query(tbl_flows)
       IN  \/ \E i, j, k \in 1..Len(tor_flows) :
                  /\ i < j /\ j < k
                  /\ ~PrivateAddress(tor_flows[j].src_ip)
                  /\ <<tor_flows[i].id, tor_flows[k].id>> \in EvaluatedPairs
           \/ /\ EvaluatedPairs # {}
              /\ \E i, j \in 1..Len(tor_flows) :
                     /\ i < j
                     /\ PrivateAddress(tor_flows[i].src_ip)
                     /\ PrivateAddress(tor_flows[j].src_ip)
                     /\ <<tor_flows[i].id, tor_flows[j].id>> \notin EvaluatedPairs

\* C22: the weight _calculate_correlation computes for any two flows of the
\* store lies between 0 and 1, and so does the weight of every persisted
\* Correlation: timing (0.1 to 0.4), entry/exit (0.3), size similarity (at
\* most 0.2) and same source (0.1) sum to 1.0 at most
C22_WeightInUnitInterval ==
    /\ \A a, b \in Range(tbl_flows) :
           (a.id # b.id /\ ~calculate_correlation_raises(a, b, tbl_tor_nodes)) =>
               LET calc == calculate_correlation(a, b, tbl_tor_nodes)
               IN  /\ RLe(RInt(0), calc.weight) /\ RLe(calc.weight, RInt(1))
                   /\ RLe(Rat(1, 10), calc.evidence.timing_score)
                   /\ RLe(calc.evidence.timing_score, Rat(4, 10))
                   /\ calc.evidence.size_similarity # None =>
                          RLe(calc.evidence.size_similarity[1], Rat(2, 10))
    /\ \A k \in 1..Len(tbl_correlations) :
           /\ RLe(RInt(0), tbl_correlations[k].correlation_weight)
           /\ RLe(tbl_correlations[k].correlation_weight, RInt(1))

\* a pass has persisted a Correlation of weight 1.0: all four components at
\* their maximum
C22_Witness ==
    \E k \in 1..Len(tbl_correlations) :
        /\ tbl_correlations[k].correlation_weight = RInt(1)
        /\ tbl_correlations[k].evidence.entry_exit_pattern
        /\ tbl_correlations[k].evidence.same_source

\* C20: every persisted Correlation has flow_id < correlated_flow_id, which
\* for two candidate flows of equal ts_start is the pairing in ascending
\* Flow id order
C20_AscendingIds ==
    \A k \in 1..Len(tbl_correlations) :
        tbl_correlations[k].flow_id < tbl_correlations[k].correlated_flow_id

\* C19: deleting a Flow removes every Correlation that names it as flow_id
\* or as correlated_flow_id: after any sequence of correlation passes and
\* Flow deletions both Flows of every Correlation are in the store
C19_DeleteCascades ==
    /\ \A k \in 1..Len(tbl_correlations) :
           /\ tbl_correlations[k].flow_id \in FlowIdsOf(tbl_flows)
           /\ tbl_correlations[k].correlated_flow_id \in FlowIdsOf(tbl_flows)
    /\ last_call.op = "delete_flow" =>
           /\ ~last_call.raised
           /\ last_call.flow_id \notin FlowIdsOf(tbl_flows)

----------------------------------------------------------------------------
(* The end-to-end scenarios *)

\* the flow of the solo relay connection: 192.168.1.100:50000 ->
\* 185.220.101.1:9001, 100 packets, 10000 bytes, no payload, lasting no
\* longer than 60 seconds
SoloRelayFlow(flow) ==
    /\ flow.src_ip = IP_HOST_A /\ flow.src_port = 50000
    /\ flow.dst_ip = IP_RELAY /\ flow.dst_port = 9001
    /\ flow.protocol = "TCP"
    /\ flow.pkt_count = 100 /\ flow.byte_count = 10000
    /\ flow.payload_sample = None
    /\ RLe(total_seconds(flow.ts_end, flow.ts_start), RInt(60))

\* the store of the solo relay connection: classified, the directory row of
\* 185.220.101.1 with flags [Guard, Fast, Stable], no Correlation rows
SoloRelayStore ==
    /\ analyzed
    /\ tbl_correlations = <<>>
    /\ TorNodeByIp(tbl_tor_nodes, IP_RELAY) # None
    /\ TorNodeByIp(tbl_tor_nodes, IP_RELAY)[1].flags = Some(<<"Guard", "Fast", "Stable">>)

\* what classify and score give the solo relay flow, for a shape score and a
\* total: the flags, the components score_flow returns and the score and the
\* category score_all_flows stores
SoloRelayOutcome(shape, total) ==
    SoloRelayStore =>
        \A i \in 1..Len(tbl_flows) :
            SoloRelayFlow(tbl_flows[i]) =>
                /\ tbl_flows[i].relay_comm
                /\ ~tbl_flows[i].possible_tor_handshake
                /\ (/\ last_call.op = "score_flow"
                    /\ ~last_call.raised
                    /\ last_call.flow_id = tbl_flows[i].id)
                   => /\ last_call.ret[2].tor_node_match = RInt(40)
                      /\ last_call.ret[2].timing_correlation = RInt(0)
                      /\ last_call.ret[2].payload_similarity = RInt(0)
                      /\ last_call.ret[2].unusual_patterns = RInt(shape)
                      /\ last_call.ret[1] = RInt(total)
                /\ last_call.op = "score_all_flows"
                   => /\ tbl_flows[i].confidence_score = RInt(total)
                      /\ tbl_flows[i].confidence_category = Some("Medium")

\* C13 as stated: for the solo relay flow (100 packets), classify then score
\* yields relay_comm = true, possible_tor_handshake = false, relay-node-match
\* 40, payload 0, shape 8, total 48 and category Medium
C13_SoloRelayAsStated == SoloRelayOutcome(8, 48)

\* C13, amended: for the solo relay flow (100 packets, at most 60 seconds
\* long), classify then score yields relay_comm = true,
\* possible_tor_handshake = false, relay-node-match 40, payload 0, shape 5
\* (the relay port alone: 100 packets are not more than 100), total 45 and
\* category Medium
C13_SoloRelayScored == SoloRelayOutcome(5, 45)

\* score_flow has scored the solo relay flow in the store of the scenario
C13_Witness ==
    /\ SoloRelayStore
    /\ last_call.op = "score_flow"
    /\ ~last_call.raised
    /\ \E i \in 1..Len(tbl_flows) :
           SoloRelayFlow(tbl_flows[i]) /\ last_call.flow_id = tbl_flows[i].id

\* the store of the entry/exit pair: two flows from 192.168.1.100 that start
\* half a second apart, the first to the relay 185.220.101.1, the second to
\* 8.8.8.8:443; the directory row of the relay with flags [Guard]; classified
EntryExitStore ==
    /\ analyzed
    /\ Len(tbl_flows) = 2
    /\ \A i \in 1..2 : tbl_flows[i].src_ip = IP_HOST_A
    /\ tbl_flows[1].dst_ip = IP_RELAY
    /\ tbl_flows[2].dst_ip = IP_OPEN /\ tbl_flows[2].dst_port = 443
    /\ tbl_flows[2].ts_start - tbl_flows[1].ts_start = MICROS_PER_SECOND \div 2
    /\ TorNodeByIp(tbl_tor_nodes, IP_RELAY) # None
    /\ TorNodeByIp(tbl_tor_nodes, IP_RELAY)[1].flags = Some(<<"Guard">>)

\* the first correlation pass, with window 10 s and threshold 0.3, has run
EntryExitPass ==
    /\ last_call.op = "correlate_flows"
    /\ ~last_call.raised
    /\ passes = 1
    /\ time_window = 10
    /\ last_call.min_correlation_weight = Rat(3, 10)

\* exactly one Correlation row, of type entry_exit, with weight >= 0.8
OneEntryExitRow ==
    /\ Len(tbl_correlations) = 1
    /\ tbl_correlations[1].correlation_type = "entry_exit"
    /\ RLe(Rat(8, 10), tbl_correlations[1].correlation_weight)

----------------------------------------------------------------------------
(* Claims about the payload rules and the payload score *)

\* min(20, 12 [possible_tor_handshake] + 16 [obfsproxy_candidate]
\*         + 4 [byte_count > 10000])
PayloadPoints(flow) ==
    RMin(RInt(20),
         RInt((IF flow.possible_tor_handshake THEN 12 ELSE 0)
              + (IF flow.obfsproxy_candidate THEN 16 ELSE 0)
              + (IF flow.byte_count > 10000 THEN 4 ELSE 0)))

\* score_flow has returned the components of the flow of the store
PayloadScored ==
    /\ last_call.op = "score_flow"
    /\ ~last_call.raised
    /\ Len(tbl_flows) = 1
    /\ last_call.flow_id = tbl_flows[1].id

\* C23 as stated: the payload component of every Flow, with or without a
\* stored payload prefix, is min(20, 12 [possible_tor_handshake]
\* + 16 [obfsproxy_candidate] + 4 [byte_count > 10000])
C23_PayloadScoreAsStated ==
    PayloadScored => last_call.ret[2].payload_similarity = PayloadPoints(tbl_flows[1])

\* C23, amended: the payload component is min(20, 12 [possible_tor_handshake]
\* + 16 [obfsproxy_candidate] + 4 [byte_count > 10000]) for every Flow that
\* has a stored payload prefix, and 0 for every Flow that has none
C23_PayloadScore ==
    PayloadScored =>
        last_call.ret[2].payload_similarity
            = IF tbl_flows[1].payload_sample # None THEN PayloadPoints(tbl_flows[1])
              ELSE RInt(0)

\* score_flow has scored a flow with both payload indicators and more than
\* 10000 bytes: 32 points, clamped to 20
C23_Witness ==
    /\ PayloadScored
    /\ tbl_flows[1].possible_tor_handshake
    /\ tbl_flows[1].obfsproxy_candidate
    /\ tbl_flows[1].byte_count > 10000
    /\ last_call.ret[2].payload_similarity = RInt(20)

\* rule R5 on a payload prefix: at least 100 bytes, none of the six ASCII
\* markers in the first 100 bytes, more than 50 byte values among them
ObfuscatedPrefix(payload) ==
    /\ Len(payload) >= 100
    /\ \A m \in 1..Len(common_markers) : ~Contains(Prefix(payload, 100), common_markers[m])
    /\ Cardinality(Range(Prefix(payload, 100))) > 50

\* C24: after classification obfsproxy_candidate is set exactly for the
\* Flows whose stored payload prefix has at least 100 bytes, none of the six
\* ASCII markers in its first 100 bytes and more than 50 byte values among
\* them; a prefix of exactly 100 bytes that meets the other two is flagged
C24_ObfuscatedRule ==
    analyzed =>
        \A i \in 1..Len(tbl_flows) :
            tbl_flows[i].obfsproxy_candidate
                <=> /\ decoded_payload(tbl_flows[i]) # None
                    /\ ObfuscatedPrefix(decoded_payload(tbl_flows[i])[1])

----------------------------------------------------------------------------
(* Claims about a correlation pass that fails *)

\* the pairs of Flow ids an edge of the graph joins
EdgePairs(graph) == {e.ends : e \in graph}

\* the pairs of Flow ids the Correlation rows join
RowPairs(rows) == {{rows[k].flow_id, rows[k].correlated_flow_id} : k \in 1..Len(rows)}

\* the rows of tbl that follow its first n rows
RowsAfter(tbl, n) == SubSeq(tbl, n + 1, Len(tbl))

\* C26: a correlation pass that fails leaves no edge of its own in the
\* engine's graph, and after a successful pass that follows a failed one on
\* the same engine the edges of the graph join exactly the pairs of flows
\* that the successful pass persisted as Correlation rows
C26_GraphDiscarded ==
    [][(last_call'.op = "correlate_flows" /\ passes' = passes + 1) =>
           IF last_call'.raised
           THEN correlation_graph' \subseteq correlation_graph
           ELSE (last_call.op = "correlate_flows" /\ last_call.raised) =>
                    EdgePairs(correlation_graph')
                        = RowPairs(RowsAfter(tbl_correlations', Len(tbl_correlations)))]_vars

\* whether a pass over the store raises while it pairs the flows or weighs a
\* pair: an address _is_internal_ip cannot read, or a pair inside the
\* window whose weight cannot be calculated
PassRaises ==
    \/ get_internal_ips_raises(tbl_flows)
    \/ \E p \in WindowPairs :
           calculate_correlation_raises(FlowById(tbl_flows, p[1]), FlowById(tbl_flows, p[2]),
                                        tbl_tor_nodes)

\* C27: a correlation pass that raises, while it pairs, weighs or commits,
\* leaves the Correlation rows of the store as they were before it started
\* (and the Flow and TorNode rows with them), and the caller gets the error;
\* a pass over a store that makes the pairing or the weighting raise always
\* raises
C27_AllOrNothing ==
    [][(last_call'.op = "correlate_flows" /\ passes' = passes + 1) =>
           /\ PassRaises => last_call'.raised
           /\ last_call'.raised =>
                  /\ tbl_correlations' = tbl_correlations
                  /\ tbl_flows' = tbl_flows
                  /\ tbl_tor_nodes' = tbl_tor_nodes]_vars

\* a pass has raised while it weighed a pair, after it had added the
\* Correlation of an earlier pair to the session (its edge is in the graph),
\* and the store holds no Correlation
C27_Witness ==
    /\ last_call.op = "correlate_flows"
    /\ last_call.raised
    /\ last_call.error = "pairing"
    /\ ~get_internal_ips_raises(tbl_flows)
    /\ correlation_graph # {}
    /\ tbl_correlations = <<>>

\* an address string that is no dotted quad of numbers from 0 to 255
Malformed(ip) == Len(ip) # 4 \/ \E k \in 1..Len(ip) : ip[k] \notin 0..255

\* the Flow ids of the candidate flows whose src_ip is malformed
MalformedCandidates ==
    {tbl_flows[i].id : i \in {j \in 1..Len(tbl_flows) :
        any_indicator(tbl_flows[j]) /\ Malformed(tbl_flows[j].src_ip)}}

\* C28: a candidate Flow whose src_ip is a malformed address string counts
\* as non-private: no Correlation names it, and a pass over a store that
\* holds it persists the correlations of the other flows (every pair of
\* private candidates inside the window whose weight reaches the
\* threshold), unless weighing one of those pairs or the commit fails
C28_MalformedIsPublic ==
    [][(last_call'.op = "correlate_flows" /\ passes' = passes + 1
            /\ MalformedCandidates # {}) =>
           /\ \A k \in 1..Len(tbl_correlations') :
                  /\ tbl_correlations'[k].flow_id \notin MalformedCandidates
                  /\ tbl_correlations'[k].correlated_flow_id \notin MalformedCandidates
           /\ (\A p \in WindowPairs :
                   ~calculate_correlation_raises(FlowById(tbl_flows, p[1]),
                                                 FlowById(tbl_flows, p[2]), tbl_tor_nodes)) =>
                  IF last_call'.raised THEN last_call'.error = "commit"
                  ELSE RowPairs(RowsAfter(tbl_correlations', Len(tbl_correlations)))
                       = {{p[1], p[2]} : p \in {q \in WindowPairs :
                             persists(calculate_correlation(FlowById(tbl_flows, q[1]),
                                                            FlowById(tbl_flows, q[2]),
                                                            tbl_tor_nodes).weight,
                                      last_call'.min_correlation_weight)}}]_vars

----------------------------------------------------------------------------
(* Claims about a directory load that fails, and about the batch size *)

\* the addresses of the rows of the TorNode table
TableAddresses == {tbl_tor_nodes[k].ip_address : k \in 1..Len(tbl_tor_nodes)}

\* C29: after any sequence of directory loads on one extractor, loads that
\* fail and roll back among them, every address in the extractor's cache is
\* the address of a TorNode row, and so no Flow has relay_comm set for a
\* destination that is neither on a relay port nor an address of the table
C29_CacheWithinTable ==
    /\ tor_node_ips \subseteq TableAddresses
    /\ \A i \in 1..Len(tbl_flows) :
           (tbl_flows[i].relay_comm /\ tbl_flows[i].dst_port \notin TOR_PORTS) =>
               tbl_flows[i].dst_ip \in TableAddresses

\* C30: a classification pass over a finite set of flows terminates for
\* every integer batch size, having applied the rules to every stored Flow
\* exactly once: each batch it commits moves the offset on towards the
\* number of flows, no Flow has the rules applied a second time, and when
\* the pass returns every Flow has had them applied
C30_TerminatesOnce ==
    [][/\ (analyze_run.pc = "loop" /\ analyze_run'.pc = "loop") =>
              analyze_run'.offset > analyze_run.offset
       /\ analyze_run'.pc \in {"loop", "returned"} =>
              \A i \in 1..Len(tbl_flows') : analyze_run'.visits[i] <= 1
       /\ analyze_run'.pc = "returned" =>
              \A i \in 1..Len(tbl_flows') : analyze_run'.visits[i] = 1]_vars

----------------------------------------------------------------------------
(* The category function on its own: _get_category applied to a score *)

\* the clamped scores the function is applied to: the halves from 0 to 100,
\* which hold every boundary of CATEGORIES and a value on either side of it
CategoryScores == {Rat(n, 2) : n \in 0..200}

\* self._get_category(cat_score)
GetCategory ==
    /\ cat_result = None
    /\ cat_result' = Some(get_category(cat_score))
    /\ UNCHANGED <<ingest_vars, store_vars, stage_vars, loop_vars, cat_score>>

InitCategory ==
    /\ IngestIdle
    /\ tbl_flows = <<>>
    /\ tbl_tor_nodes = <<>>
    /\ tbl_correlations = <<>>
    /\ StagesIdle
    /\ cat_score \in CategoryScores
    /\ cat_result = None

NextCategory == GetCategory

SpecCategory == InitCategory /\ [][NextCategory]_vars

\* the label the half-open intervals give a score between 0 and 100
IntervalLabel(s) ==
    IF RLe(RInt(0), s) /\ RLt(s, RInt(30)) THEN "Low"
    ELSE IF RLe(RInt(30), s) /\ RLt(s, RInt(60)) THEN "Medium"
    ELSE IF RLe(RInt(60), s) /\ RLt(s, RInt(85)) THEN "High"
    ELSE "Critical"

\* C7: the category function gives a clamped score s the one label of its
\* half-open interval: Low for 0 <= s < 30, Medium for 30 <= s < 60, High for
\* 60 <= s < 85, Critical for 85 <= s <= 100; 30 is Medium, 60 is High, 85
\* and 100 are Critical
C7_CategoryIntervals ==
    cat_result # None =>
        /\ RLe(RInt(0), cat_score) /\ RLe(cat_score, RInt(100))
        /\ cat_result[1] = IntervalLabel(cat_score)
        /\ cat_score = RInt(30) => cat_result[1] = "Medium"
        /\ cat_score = RInt(60) => cat_result[1] = "High"
        /\ cat_score \in {RInt(85), RInt(100)} => cat_result[1] = "Critical"

\* the function has been applied to the boundary 30
C7_Witness == cat_score = RInt(30) /\ cat_result = Some("Medium")

====
